---- MODULE Spec2Model ----
(***************************************************************************)
(* A model of the TUN/TAP device layer of src/tun.c: the tuntap object's   *)
(* life cycle (init_tun, open_tun, do_ifconfig, close_tun) on each of the  *)
(* platform backends the file selects with #ifdef, the Windows overlapped   *)
(* read/write state machines (tun_read_queue, tun_write_queue,             *)
(* tun_finalize, close_tun) and the netsh command driver (netsh_command).  *)
(***************************************************************************)
EXTENDS Integers, Sequences, FiniteSets, TLC

(***************************************************************************)
(* Bounds of the model.                                                    *)
(***************************************************************************)
\* How many times do_ifconfig is called on one tuntap object.
MaxIfconfig == 1
\* Device nodes /dev/<dev>0 .. /dev/<dev>(MaxUnits-1) that dynamic probing
\* tries (the code's loop runs to 256).
MaxUnits == 2

(***************************************************************************)
(* Strings are sequences of characters, so that strcmp and strncmp are     *)
(* computed and not assumed.                                               *)
(***************************************************************************)
\* a NULL pointer (no string has this value: a string's elements are characters)
NULL == <<"NULL">>

S_tun == <<"t", "u", "n">>
S_tap == <<"t", "a", "p">>
S_null == <<"n", "u", "l", "l">>
S_tun0 == <<"t", "u", "n", "0">>
S_foo == <<"f", "o", "o">>

Digits == {"0", "1", "2", "3", "4", "5", "6", "7", "8", "9"}

DigitChar(i) == <<"0", "1", "2", "3", "4", "5", "6", "7", "8", "9">>[i + 1]

\* strncmp (a, b, n) == 0
strncmp_eq(a, b, n) ==
  \A i \in 1..n :
    \/ i <= Len(a) /\ i <= Len(b) /\ a[i] = b[i]
    \/ \E j \in 1..(i - 1) : j = Len(a) + 1 /\ j = Len(b) + 1

\* strcmp (a, b) == 0
strcmp_eq(a, b) == a = b

has_digit(s) == \E i \in 1..Len(s) : s[i] \in Digits

(***************************************************************************)
(* in_addr_t in host order, as its four bytes (most significant first):    *)
(* the 32-bit width is kept and no value leaves the range.                 *)
(***************************************************************************)
IP(a, b, c, d) == <<a, b, c, d>>

RECURSIVE ByteOp(_, _, _, _)
\* bitwise op on two bytes, n bits: op is "and" or "or"
ByteOp(op, x, y, n) ==
  IF n = 0 THEN 0
  ELSE LET bx == x % 2
           by == y % 2
           b == IF op = "and" THEN bx * by
                ELSE IF bx + by > 0 THEN 1 ELSE 0
       IN b + 2 * ByteOp(op, x \div 2, y \div 2, n - 1)

And32(x, y) == [i \in 1..4 |-> ByteOp("and", x[i], y[i], 8)]
Or32(x, y) == [i \in 1..4 |-> ByteOp("or", x[i], y[i], 8)]
Not32(x) == [i \in 1..4 |-> 255 - x[i]]

ADDR0 == IP(0, 0, 0, 0)

generate_ifconfig_broadcast_addr(local, netmask) == Or32(local, Not32(netmask))

\* verify_255_255_255_252 returns (TRUE) or is fatal (FALSE); mask = 3
verify_255_255_255_252(local, remote) ==
  LET mask == IP(0, 0, 0, 3)
  IN /\ local # remote
     /\ And32(local, Not32(mask)) = And32(remote, Not32(mask))
     /\ ~ \/ And32(local, mask) = ADDR0
          \/ And32(local, mask) = mask
          \/ And32(remote, mask) = ADDR0
          \/ And32(remote, mask) = mask

\* the error strings of verify_255_255_255_252, by their first words
ERR_DIFFERENT == "must be different"
ERR_SAME_SUBNET == "must exist within the same 255.255.255.252 subnet"
ERR_FIRST_OR_LAST == "cannot use the first or last address"

\* verify_255_255_255_252 without the test of the first and last address
verify_255_255_255_252_err_no_edge_test(local, remote) ==
  LET mask == IP(0, 0, 0, 3)
  IN IF local = remote THEN ERR_DIFFERENT
     ELSE IF And32(local, Not32(mask)) # And32(remote, Not32(mask))
     THEN ERR_SAME_SUBNET
     ELSE "NULL"

\* verify_255_255_255_252: err at the end of the function, "NULL" when it
\* returns and else the text msg (M_FATAL) reports
verify_255_255_255_252_err(local, remote) ==
  LET mask == IP(0, 0, 0, 3)
  IN IF local = remote THEN ERR_DIFFERENT
     ELSE IF And32(local, Not32(mask)) # And32(remote, Not32(mask))
     THEN ERR_SAME_SUBNET
     ELSE IF \/ And32(local, mask) = ADDR0
             \/ And32(local, mask) = mask
             \/ And32(remote, mask) = ADDR0
             \/ And32(remote, mask) = mask
     THEN ERR_FIRST_OR_LAST
     ELSE "NULL"

(***************************************************************************)
(* Device kinds and topologies.                                            *)
(***************************************************************************)
DEV_TYPE_UNDEF == "DEV_TYPE_UNDEF"
DEV_TYPE_NULL == "DEV_TYPE_NULL"
DEV_TYPE_TUN == "DEV_TYPE_TUN"
DEV_TYPE_TAP == "DEV_TYPE_TAP"

TOP_UNDEF == "TOP_UNDEF"
TOP_NET30 == "TOP_NET30"
TOP_P2P == "TOP_P2P"
TOP_SUBNET == "TOP_SUBNET"

\* is_dev_type that compares dev_type as a prefix, as it does dev
is_dev_type_prefix_of_type(dev, dev_type, match_type) ==
  IF dev = NULL THEN FALSE
  ELSE IF dev_type # NULL
  THEN strncmp_eq(dev_type, match_type, Len(match_type))
  ELSE strncmp_eq(dev, match_type, Len(match_type))

is_dev_type(dev, dev_type, match_type) ==
  IF dev = NULL THEN FALSE
  ELSE IF dev_type # NULL THEN strcmp_eq(dev_type, match_type)
  ELSE strncmp_eq(dev, match_type, Len(match_type))

dev_type_enum(dev, dev_type) ==
  IF is_dev_type(dev, dev_type, S_tun) THEN DEV_TYPE_TUN
  ELSE IF is_dev_type(dev, dev_type, S_tap) THEN DEV_TYPE_TAP
  ELSE IF is_dev_type(dev, dev_type, S_null) THEN DEV_TYPE_NULL
  ELSE DEV_TYPE_UNDEF

\* is_tun_p2p: "true", "false", or "fatal" (msg (M_FATAL, ...))
\* is_tun_p2p that decides a Tap device by its topology, as it does a Tun
is_tun_p2p_tap_by_topology(t) ==
  IF t.type \in {DEV_TYPE_TUN, DEV_TYPE_TAP} /\ t.topology = TOP_SUBNET
  THEN "false"
  ELSE IF t.type \in {DEV_TYPE_TUN, DEV_TYPE_TAP} THEN "true"
  ELSE "fatal"

is_tun_p2p(t) ==
  IF t.type = DEV_TYPE_TAP \/ (t.type = DEV_TYPE_TUN /\ t.topology = TOP_SUBNET)
  THEN "false"
  ELSE IF t.type = DEV_TYPE_TUN THEN "true"
  ELSE "fatal"


(***************************************************************************)
(* State.                                                                  *)
(***************************************************************************)
VARIABLES
  build,    \* the #ifdef selection the file was compiled with
  tt,       \* the fields of struct tuntap
  alive,    \* the caller's tuntap pointer is not NULL
  opt,      \* the caller's options: --dev, --dev-type, --dev-node, --tun-ipv6
  calls,    \* the calls made on this tuntap object, in order
  aborted,  \* msg (M_FATAL / M_ERR) has ended the process
  os,       \* the operating system: descriptors, heap strings, interface state
  rel,      \* what the last close_tun released, and the state it started from
  snap,     \* the interface addresses and routes when open_tun was called
  io,       \* WIN32: tt->reads and tt->writes, and the operations counted
  drv,      \* WIN32: the driver's side of the overlapped operations
  iolog,    \* WIN32: the last I/O call and what the system reported to it
  ns,       \* netsh_command: the retry loop
  px,       \* the processes running external commands, and the semaphore
  fn        \* a call of one of the file's functions: arguments and result

lvars == <<build, tt, alive, opt, calls, aborted, os, rel, snap>>
iovars == <<io, drv, iolog>>
nvars == <<ns>>
xvars == <<px, fn>>
vars == <<build, tt, alive, opt, calls, aborted, os, rel, snap,
          io, drv, iolog, ns, px, fn>>

(***************************************************************************)
(* WIN32 overlapped I/O: struct overlapped_io, one for reads and one for    *)
(* writes.  The event of a record is "none" (hEvent is NULL), "reset" or   *)
(* "signaled".  A status is NO_ERROR (0) or a GetLastError code.           *)
(***************************************************************************)
\* the capacity of the buffers init_tun_post allocates, in bytes
MaxLen == 1

\* operations a run issues, reads and writes together
MaxOps == 2

Dirs == {"reads", "writes"}

IOSTATE_INITIAL == "IOSTATE_INITIAL"
IOSTATE_QUEUED == "IOSTATE_QUEUED"
IOSTATE_IMMEDIATE_RETURN == "IOSTATE_IMMEDIATE_RETURN"

NO_ERROR == "NO_ERROR"
ERROR_IO_PENDING == "ERROR_IO_PENDING"
ERROR_IO_INCOMPLETE == "ERROR_IO_INCOMPLETE"
ERROR_INVALID_FUNCTION == "ERROR_INVALID_FUNCTION"
ERROR_INVALID_HANDLE == "ERROR_INVALID_HANDLE"
ERROR_GEN_FAILURE == "ERROR_GEN_FAILURE"
ERROR_OPERATION_ABORTED == "ERROR_OPERATION_ABORTED"

\* a record of the CLEARed struct tuntap
CLEAR_overlapped_io ==
  [iostate |-> IOSTATE_INITIAL, status |-> NO_ERROR, size |-> 0,
   event |-> "none"]

\* overlapped_io_init (o, frame, event_state, true): a manual-reset event in
\* the state event_state, the record otherwise cleared
overlapped_io_init(event_state) ==
  [CLEAR_overlapped_io EXCEPT
     !.event = IF event_state THEN "signaled" ELSE "reset"]

\* overlapped_io_close (o): the event handle is closed
overlapped_io_close(o) == [o EXCEPT !.event = "none"]

IdleIo ==
  [reads |-> CLEAR_overlapped_io, writes |-> CLEAR_overlapped_io,
   issued |-> [reads |-> 0, writes |-> 0],
   completed |-> [reads |-> 0, writes |-> 0]]

IdleDrv ==
  [reads |-> [st |-> "idle", size |-> 0],
   writes |-> [st |-> "idle", size |-> 0]]

\* no call yet: ret is the value a tun_finalize returned, state the one a
\* queue call returned, last_error the thread's last error code
IdleLog ==
  [op |-> "none", dir |-> "none", err |-> NO_ERROR, ret |-> 0,
   state |-> IOSTATE_INITIAL, last_error |-> NO_ERROR]

(***************************************************************************)
(* Builds: TARGET_LINUX with HAVE_LINUX_IF_TUN_H and with or without       *)
(* CONFIG_FEATURE_IPROUTE, TARGET_LINUX without HAVE_LINUX_IF_TUN_H,       *)
(* TARGET_SOLARIS, TARGET_OPENBSD, TARGET_NETBSD, TARGET_FREEBSD (and       *)
(* TARGET_DRAGONFLY, whose open, close and ifconfig are the same),         *)
(* TARGET_DARWIN (the generic open_tun and close_tun) and WIN32.           *)
(***************************************************************************)
Builds ==
  {"linux_iproute", "linux_ifconfig", "linux_old", "solaris", "openbsd",
   "netbsd", "freebsd", "darwin", "win32"}

IsLinux(b) == b \in {"linux_iproute", "linux_ifconfig", "linux_old"}
IsWin(b) == b = "win32"

IPW32_SET_MANUAL == "manual"
IPW32_SET_NETSH == "netsh"
IPW32_SET_IPAPI == "ipapi"
IPW32_SET_DHCP_MASQ == "dynamic"
IPW32_SET_ADAPTIVE == "adaptive"
IpWin32Types ==
  {IPW32_SET_MANUAL, IPW32_SET_NETSH, IPW32_SET_IPAPI, IPW32_SET_DHCP_MASQ,
   IPW32_SET_ADAPTIVE}

\* CLEAR (tt->options)
ClearedOptions == [ip_win32_type |-> IPW32_SET_MANUAL, dhcp_release |-> FALSE]

\* CLEAR (*tuntap): every field zero
CLEAR_tuntap ==
  [type |-> DEV_TYPE_UNDEF, topology |-> TOP_UNDEF,
   did_ifconfig_setup |-> FALSE, did_ifconfig |-> FALSE,
   local |-> ADDR0, remote_netmask |-> ADDR0, broadcast |-> ADDR0,
   adapter_netmask |-> ADDR0,
   fd |-> 0, ip_fd |-> 0, hand |-> NULL,
   actual_name |-> NULL, ipv6 |-> FALSE,
   ipapi_context_defined |-> FALSE, standby_iter |-> 0,
   options |-> ClearedOptions]

\* clear_tuntap that leaves the descriptors at the zero CLEAR wrote
clear_tuntap_zero_fd == CLEAR_tuntap

\* clear_tuntap: CLEAR (*tuntap), then hand = NULL or fd = -1, and ip_fd = -1
\* (a field the build does not have is written all the same and never read)
clear_tuntap == [CLEAR_tuntap EXCEPT !.fd = -1, !.ip_fd = -1]

\* The platform handle is valid: fd >= 0, or hand != NULL on WIN32.
HandleValid(b, t) == IF IsWin(b) THEN t.hand # NULL ELSE t.fd >= 0

(***************************************************************************)
(* The operating system.  fds: the process's open descriptors; names: the  *)
(* live strings string_alloc returned; addr, route: the tunnel interface's *)
(* addresses and the routes through it; persist: the interface survives    *)
(* the close of its descriptor (a persistent device).                       *)
(***************************************************************************)
Fds == {0, 3, 4, 5}

\* open(2): the lowest free descriptor, or -1 when none is left
LowestFree(fds) ==
  IF Fds \ fds = {} THEN -1
  ELSE CHOOSE f \in Fds \ fds : \A g \in Fds \ fds : f <= g

\* nothing released yet
NoRelease ==
  [calls |-> <<>>, ok |-> TRUE, pre |-> clear_tuntap, pre_fds |-> {}, pre_names |-> 0,
   pre_hand_open |-> FALSE, bad_close |-> FALSE, bad_free |-> FALSE]

\* close(2) of descriptor f: gone from the table; the interface goes with
\* the device descriptor unless it is persistent
OsClose(o, f, device) ==
  [o EXCEPT !.fds = @ \ {f},
            !.addr = IF device /\ ~o.persist THEN {} ELSE @,
            !.route = IF device /\ ~o.persist THEN {} ELSE @]


(***************************************************************************)
(* init_tun and init_tun_post.                                             *)
(***************************************************************************)
Devs == {S_tun, S_tun0, S_null, S_foo}
DevTypes == {NULL, S_tap}
Topologies == {TOP_NET30, TOP_P2P, TOP_SUBNET}

\* --ifconfig parameters as the addresses getaddr resolves them to
\* (NULL: the parameter is absent)
IfconfigParms ==
  {<<NULL, NULL>>,
   <<IP(10, 8, 0, 2), NULL>>,
   <<IP(10, 8, 0, 2), IP(10, 8, 0, 1)>>,
   <<IP(192, 168, 50, 1), IP(255, 255, 255, 0)>>}

\* the builds whose open_tun goes on differently with --dev-node (those of
\* open_tun_generic: elsewhere the option only names the node to open)
ReadsDevNode(b) == b \in {"linux_old", "openbsd", "netbsd", "freebsd", "darwin"}

\* msg flags: a message with M_FATAL ends the process, one with M_WARN is
\* printed and the function goes on
M_WARN == "M_WARN"
M_FATAL == "M_FATAL"

\* msg (flags, text): the message added to those printed; a text is the
\* option or function it is about and its first words
msg(flags, text) == {<<flags, text>>}

\* ifconfig_sanity_check that reports with M_FATAL
ifconfig_sanity_check_fatal(tun, addr, topology) ==
  LET looks_like_netmask == addr[1] = 255
  IN IF tun
     THEN IF looks_like_netmask /\ topology \in {TOP_NET30, TOP_P2P}
          THEN msg(M_FATAL, <<"ifconfig", "second argument to --ifconfig must be an IP address">>)
          ELSE {}
     ELSE IF ~looks_like_netmask
          THEN msg(M_FATAL, <<"ifconfig", "second argument to --ifconfig must be a netmask">>)
          ELSE {}

\* ifconfig_sanity_check (tun, addr, topology): (addr & 0xFF000000) ==
\* 0xFF000000 is a first byte of 255
ifconfig_sanity_check(tun, addr, topology) ==
  LET looks_like_netmask == addr[1] = 255
  IN IF tun
     THEN IF looks_like_netmask /\ topology \in {TOP_NET30, TOP_P2P}
          THEN msg(M_WARN, <<"ifconfig", "second argument to --ifconfig must be an IP address">>)
          ELSE {}
     ELSE IF ~looks_like_netmask
          THEN msg(M_WARN, <<"ifconfig", "second argument to --ifconfig must be a netmask">>)
          ELSE {}

\* check_addr_clash (name, type, public, local, remote_netmask)
check_addr_clash(name, type, public, local, remote_netmask) ==
  IF public = ADDR0 THEN {}
  ELSE IF type = DEV_TYPE_TUN
  THEN LET test_netmask == IP(255, 255, 255, 0)
           public_net == And32(public, test_netmask)
           local_net == And32(local, test_netmask)
           remote_net == And32(remote_netmask, test_netmask)
       IN (IF public = local \/ public = remote_netmask
           THEN msg(M_WARN, <<name, "address conflicts with --ifconfig address pair">>)
           ELSE {})
            \cup
          (IF public_net = local_net \/ public_net = remote_net
           THEN msg(M_WARN, <<name, "potential conflict with --ifconfig address pair">>)
           ELSE {})
  ELSE IF type = DEV_TYPE_TAP
  THEN LET public_network == And32(public, remote_netmask)
           virtual_network == And32(local, remote_netmask)
       IN IF public_network = virtual_network
          THEN msg(M_WARN, <<name, "address conflicts with --ifconfig subnet">>)
          ELSE {}
  ELSE {}

\* what get_default_gateway reports: no default gateway, or the gateway and
\* the netmask of its network
NoGateway == [ok |-> FALSE, gw |-> ADDR0, netmask |-> ADDR0]

\* check_subnet_conflict (ip, netmask, prefix), lan being what
\* get_default_gateway reports
check_subnet_conflict(ip, netmask, lan) ==
  IF ~lan.ok THEN {}
  ELSE LET lan_network == And32(lan.gw, lan.netmask)
           network == And32(ip, netmask)
       IN IF \/ And32(network, lan.netmask) = lan_network
             \/ And32(lan_network, netmask) = network
          THEN msg(M_WARN, <<"TUN/TAP adapter", "potential subnet conflict">>)
          ELSE {}

RECURSIVE DecStr(_)
\* a number in decimal
DecStr(n) ==
  IF n < 10 THEN <<DigitChar(n)>>
  ELSE DecStr(n \div 10) \o <<DigitChar(n % 10)>>

\* print_in_addr_t (addr, 0, &gc): the address in dotted decimal
print_in_addr_t(addr) ==
  DecStr(addr[1]) \o <<".">> \o DecStr(addr[2]) \o <<".">>
    \o DecStr(addr[3]) \o <<".">> \o DecStr(addr[4])

\* a struct env_set pointer: NULL, or the set of its name/value pairs
NoEnv == [null |-> TRUE, vars |-> {}]
Env(vs) == [null |-> FALSE, vars |-> vs]

\* setenv_str (es, name, value): the variable is set, replacing its value
setenv_str(es, name, value) ==
  [es EXCEPT !.vars = {e \in @ : e[1] # name} \cup {<<name, value>>}]

\* init_tun's if (es) that publishes netmask and broadcast for every device
init_tun_setenv_always_netmask(es, tun, local, remote_netmask, broadcast) ==
  IF es.null THEN es
  ELSE LET e1 == setenv_str(es, "ifconfig_local", print_in_addr_t(local))
       IN setenv_str(setenv_str(e1, "ifconfig_netmask",
                                print_in_addr_t(remote_netmask)),
                     "ifconfig_broadcast", print_in_addr_t(broadcast))

\* init_tun: if (es) { setenv_str ... }
init_tun_setenv(es, tun, local, remote_netmask, broadcast) ==
  IF es.null THEN es
  ELSE LET e1 == setenv_str(es, "ifconfig_local", print_in_addr_t(local))
       IN IF tun
          THEN setenv_str(e1, "ifconfig_remote", print_in_addr_t(remote_netmask))
          ELSE setenv_str(setenv_str(e1, "ifconfig_netmask",
                                     print_in_addr_t(remote_netmask)),
                          "ifconfig_broadcast", print_in_addr_t(broadcast))

\* init_tun: what if (strict_warn) prints
init_tun_strict_warn(t, local_public, remote_public, lan) ==
  ifconfig_sanity_check(t.type = DEV_TYPE_TUN, t.remote_netmask, t.topology)
    \cup check_addr_clash("local", t.type, local_public, t.local,
                          t.remote_netmask)
    \cup check_addr_clash("remote", t.type, remote_public, t.local,
                          t.remote_netmask)
    \cup (IF \/ t.type = DEV_TYPE_TAP
             \/ (t.type = DEV_TYPE_TUN /\ t.topology = TOP_SUBNET)
          THEN check_subnet_conflict(t.local, t.remote_netmask, lan)
          ELSE IF t.type = DEV_TYPE_TUN
          THEN check_subnet_conflict(t.local, IP(255, 255, 255, 255), lan)
          ELSE {})

\* init_tun: the new object, the environment, the messages printed and
\* whether a fatal error ended the process.
\* resolved: getaddr (GETADDR_FATAL) found both addresses; lan: what
\* get_default_gateway reports.
init_tun(dev, dev_type, topology, local_parm, remote_netmask_parm, local_public, remote_public, strict_warn, es, resolved, lan) ==
  LET t0 == [clear_tuntap EXCEPT !.type = dev_type_enum(dev, dev_type),
                                 !.topology = topology]
      tun == is_tun_p2p(t0)
      t1 == [t0 EXCEPT !.local = local_parm,
                       !.remote_netmask = remote_netmask_parm]
      warn == IF strict_warn
              THEN init_tun_strict_warn(t1, local_public, remote_public, lan)
              ELSE {}
      t2 == IF tun = "false"
            THEN [t1 EXCEPT !.broadcast =
                     generate_ifconfig_broadcast_addr(t1.local, t1.remote_netmask)]
            ELSE t1
      none == [tt |-> t0, fatal |-> FALSE, es |-> es, msgs |-> {}]
  IN IF local_parm # NULL /\ remote_netmask_parm # NULL
     THEN IF tun = "fatal"
          THEN [none EXCEPT !.fatal = TRUE,
                            !.msgs = msg(M_FATAL, <<"init_tun", "problem with tun vs. tap setting">>)]
          ELSE IF ~resolved
          THEN [none EXCEPT !.fatal = TRUE,
                            !.msgs = msg(M_FATAL, <<"getaddr", "cannot resolve host address">>)]
          ELSE IF \E m \in warn : m[1] = M_FATAL
          THEN [tt |-> t1, fatal |-> TRUE, es |-> es, msgs |-> warn]
          ELSE [tt |-> [t2 EXCEPT !.did_ifconfig_setup = TRUE],
                fatal |-> FALSE,
                es |-> init_tun_setenv(es, tun = "true", t2.local,
                                       t2.remote_netmask, t2.broadcast),
                msgs |-> warn]
     ELSE none

InitTun ==
  /\ ~aborted /\ ~alive /\ calls = <<>>
  /\ \E dev \in Devs, dev_type \in DevTypes, topology \in Topologies,
        parms \in IfconfigParms, resolved \in BOOLEAN,
        dev_node \in {NULL, <<"/dev/net/tun">>}, strict_warn \in BOOLEAN :
       LET r == init_tun(dev, dev_type, topology, parms[1], parms[2],
                         ADDR0, ADDR0, strict_warn, Env({}), resolved,
                         NoGateway)
       IN /\ (~resolved => parms[1] # NULL /\ parms[2] # NULL)
          /\ tt' = r.tt
          /\ aborted' = r.fatal
          /\ (dev_node # NULL => ReadsDevNode(build))
          /\ opt' = [dev |-> dev, dev_type |-> dev_type, dev_node |-> dev_node]
  /\ alive' = TRUE
  /\ calls' = <<"init_tun">>
  /\ rel' = NoRelease
  /\ snap' = [addr |-> {}, route |-> {}]
  /\ UNCHANGED <<px, fn, build, os, io, drv, iolog, ns>>

\* init_tun_post: tt->options = *options (the caller calls it right after
\* init_tun)
init_tun_post(t, options) == [t EXCEPT !.options = options]

\* init_tun_post, WIN32: overlapped_io_init (&tt->reads, frame, FALSE, true)
\* and overlapped_io_init (&tt->writes, frame, TRUE, true)
init_tun_post_io(i) ==
  [i EXCEPT !.reads = overlapped_io_init(FALSE),
            !.writes = overlapped_io_init(TRUE)]

InitTunPost ==
  /\ ~aborted /\ alive /\ calls = <<"init_tun">>
  /\ \E ipw \in IpWin32Types, dhcp_release \in BOOLEAN :
       /\ (~IsWin(build) => ipw = IPW32_SET_MANUAL /\ ~dhcp_release)
       /\ tt' = init_tun_post(tt, [ip_win32_type |-> ipw,
                                   dhcp_release |-> dhcp_release])
  /\ io' = IF IsWin(build) THEN init_tun_post_io(io) ELSE io
  /\ calls' = Append(calls, "init_tun_post")
  /\ UNCHANGED <<px, fn, build, alive, opt, aborted, os, rel, snap, drv, iolog, ns>>


(***************************************************************************)
(* open_tun.  Each operator gives the object and the operating system       *)
(* after the call and whether a fatal error ended the process.  What the   *)
(* system calls return is an input.                                        *)
(***************************************************************************)
string_alloc(o) == [o EXCEPT !.names = @ + 1]

\* open_null: tt->actual_name = string_alloc ("null", NULL)
open_null(t, o) ==
  [tt |-> [t EXCEPT !.actual_name = S_null], os |-> string_alloc(o),
   fatal |-> FALSE]

\* the name the Linux driver gives the interface: the one asked for in
\* ifr_name, or one it picks when ifr_name was left empty
LinuxIfrName(dev) ==
  IF ~strcmp_eq(dev, S_tun) /\ ~strcmp_eq(dev, S_tap) THEN dev
  ELSE dev \o <<"0">>

\* open_tun, TARGET_LINUX with HAVE_LINUX_IF_TUN_H
open_tun_linux(t, o, dev, open_ok, ioctl_ok) ==
  IF t.type = DEV_TYPE_NULL THEN open_null(t, o)
  ELSE LET fd == IF open_ok THEN LowestFree(o.fds) ELSE -1
           t1 == [t EXCEPT !.fd = fd]
           o1 == [o EXCEPT !.fds = @ \cup {fd}]
       IN IF fd < 0 THEN [tt |-> t1, os |-> o, fatal |-> FALSE]
          ELSE IF t.type \notin {DEV_TYPE_TUN, DEV_TYPE_TAP}
          THEN [tt |-> t1, os |-> o1, fatal |-> TRUE]
          ELSE IF ~ioctl_ok THEN [tt |-> t1, os |-> o1, fatal |-> FALSE]
          ELSE [tt |-> [t1 EXCEPT !.actual_name = LinuxIfrName(dev)],
                os |-> string_alloc(o1), fatal |-> FALSE]

RECURSIVE ProbeUnits(_, _, _)
\* the loop for (i = 0; i < 256; ++i) of open_tun_generic, from unit i:
\* avail are the units whose node open(2) can open, tried the units whose
\* node was given to open(2), in the order of the calls
ProbeUnits(i, fds, avail) ==
  IF i >= MaxUnits
  THEN [opened |-> FALSE, fd |-> -1, fds |-> fds, unit |-> i, tried |-> <<>>]
  ELSE LET f == IF i \in avail THEN LowestFree(fds) ELSE -1
           fds1 == IF f >= 0 THEN fds \cup {f} ELSE fds
       IN IF f > 0
          THEN [opened |-> TRUE, fd |-> f, fds |-> fds1, unit |-> i,
                tried |-> <<i>>]
          ELSE [ProbeUnits(i + 1, fds1, avail) EXCEPT !.tried = <<i>> \o @]

\* open_tun_generic
open_tun_generic(t, o, dev, dev_node, dynamic, avail, open_ok) ==
  IF t.type = DEV_TYPE_NULL THEN open_null(t, o)
  ELSE LET probing == dev_node = NULL /\ dynamic /\ ~has_digit(dev)
           p == ProbeUnits(0, o.fds, avail)
           fd == IF open_ok THEN LowestFree(o.fds) ELSE -1
       IN IF probing
          THEN IF ~p.opened
               THEN [tt |-> [t EXCEPT !.fd = p.fd],
                     os |-> [o EXCEPT !.fds = p.fds], fatal |-> TRUE]
               ELSE [tt |-> [t EXCEPT !.fd = p.fd,
                                      !.actual_name = dev \o <<DigitChar(p.unit)>>],
                     os |-> string_alloc([o EXCEPT !.fds = p.fds]),
                     fatal |-> FALSE]
          ELSE IF fd < 0
               THEN [tt |-> [t EXCEPT !.fd = fd], os |-> o, fatal |-> TRUE]
               ELSE [tt |-> [t EXCEPT !.fd = fd, !.actual_name = dev],
                     os |-> string_alloc([o EXCEPT !.fds = @ \cup {fd}]),
                     fatal |-> FALSE]

\* open_tun, TARGET_SOLARIS: /dev/udp into ip_fd, the device node into fd, a
\* second descriptor of the node that stays linked under ip_fd; any failing
\* step is msg (M_ERR)
open_tun_solaris(t, o, dev, open_ok) ==
  IF t.type = DEV_TYPE_NULL THEN open_null(t, o)
  ELSE IF t.type \notin {DEV_TYPE_TUN, DEV_TYPE_TAP}
  THEN [tt |-> t, os |-> o, fatal |-> TRUE]
  ELSE LET ip_fd == IF open_ok THEN LowestFree(o.fds) ELSE -1
           fd == LowestFree(o.fds \cup {ip_fd})
           if_fd == LowestFree(o.fds \cup {ip_fd, fd})
           name == (IF t.type = DEV_TYPE_TUN THEN S_tun ELSE S_tap) \o <<"0">>
       IN IF ip_fd < 0 \/ fd < 0 \/ if_fd < 0
          THEN [tt |-> [t EXCEPT !.ip_fd = ip_fd], os |-> o, fatal |-> TRUE]
          ELSE [tt |-> [t EXCEPT !.ip_fd = ip_fd, !.fd = fd,
                                 !.actual_name = name],
                os |-> string_alloc([o EXCEPT !.fds = @ \cup {ip_fd, fd, if_fd}]),
                fatal |-> FALSE]

\* open_tun, WIN32.  createfile_ok: an adapter was found and CreateFile
\* opened it; config_ok: the driver version is recent enough and every
\* required DeviceIoControl and netsh command succeeded; dhcp_enabled: what
\* dhcp_status reports for the adapter.
open_tun_win32(t, o, createfile_ok, config_ok, dhcp_enabled) ==
  IF t.type = DEV_TYPE_NULL THEN open_null(t, o)
  ELSE IF t.type \notin {DEV_TYPE_TUN, DEV_TYPE_TAP}
  THEN [tt |-> t, os |-> o, fatal |-> TRUE]
  ELSE IF ~createfile_ok THEN [tt |-> t, os |-> o, fatal |-> TRUE]
  ELSE LET t1 == [t EXCEPT !.hand = <<"H">>, !.actual_name = <<"T", "A", "P">>]
           o1 == string_alloc([o EXCEPT !.hand_open = TRUE])
           ipw == t.options.ip_win32_type
           netsh == /\ t.did_ifconfig_setup /\ ipw = IPW32_SET_ADAPTIVE
                    /\ ~dhcp_enabled
           dhcp_masq == /\ t.did_ifconfig_setup
                        /\ \/ ipw = IPW32_SET_DHCP_MASQ
                           \/ ipw = IPW32_SET_ADAPTIVE /\ dhcp_enabled
           ipapi == t.did_ifconfig_setup /\ ipw = IPW32_SET_IPAPI
       IN IF ~config_ok \/ (t.type = DEV_TYPE_TUN /\ ~t.did_ifconfig_setup)
          THEN [tt |-> t1, os |-> o1, fatal |-> TRUE]
          ELSE [tt |-> [t1 EXCEPT !.ipapi_context_defined = ipapi],
                os |-> [o1 EXCEPT !.addr =
                          IF netsh \/ dhcp_masq \/ ipapi
                          THEN @ \cup {t.local} ELSE @],
                fatal |-> FALSE]

\* open_tun as the build selects it
open_tun(b, t, o, dev, dev_node, avail, open_ok, ioctl_ok, dhcp_enabled) ==
  IF b \in {"linux_iproute", "linux_ifconfig"}
  THEN open_tun_linux(t, o, dev, open_ok, ioctl_ok)
  ELSE IF b = "solaris" THEN open_tun_solaris(t, o, dev, open_ok)
  ELSE IF b = "win32" THEN open_tun_win32(t, o, open_ok, ioctl_ok, dhcp_enabled)
  ELSE open_tun_generic(t, o, dev, dev_node, TRUE, avail, open_ok)

OpenTun ==
  /\ ~aborted /\ alive
  /\ \A i \in 1..Len(calls) : calls[i] # "open_tun"
  /\ \E avail \in SUBSET (0..(MaxUnits - 1)), open_ok \in BOOLEAN,
        ioctl_ok \in BOOLEAN, dhcp_enabled \in BOOLEAN :
       LET r == open_tun(build, tt, os, opt.dev, opt.dev_node, avail, open_ok,
                         ioctl_ok, dhcp_enabled)
       IN /\ tt' = r.tt
          /\ os' = r.os
          /\ aborted' = r.fatal
  /\ calls' = Append(calls, "open_tun")
  /\ snap' = [addr |-> os.addr, route |-> os.route]
  /\ UNCHANGED <<px, fn, build, alive, opt, rel, io, drv, iolog, ns>>


(***************************************************************************)
(* close_tun.  Each build's close_tun is the sequence of releasing calls   *)
(* it makes, each under the condition the code tests, and then             *)
(* clear_tuntap and free (tt).                                             *)
(***************************************************************************)
When(c, call) == IF c THEN <<call>> ELSE <<>>

\* close_tun_generic closing tt->fd without the test fd >= 0
close_tun_generic_unguarded(t) ==
  <<"close_fd">> \o When(t.actual_name # NULL, "free_name")

\* close_tun_generic: close (tt->fd), free (tt->actual_name)
close_tun_generic(t) ==
  When(t.fd >= 0, "close_fd") \o When(t.actual_name # NULL, "free_name")

\* close_tun, TARGET_LINUX: the address is deleted first
close_tun_linux(t) ==
  When(t.type # DEV_TYPE_NULL /\ t.did_ifconfig, "addr_del")
    \o close_tun_generic(t)

\* close_tun, TARGET_SOLARIS: solaris_close_tun, then the name
close_tun_solaris(t) ==
  (IF t.ip_fd >= 0 THEN <<"I_PUNLINK", "close_ip_fd">> ELSE <<>>)
    \o When(t.fd >= 0, "close_fd")
    \o When(t.actual_name # NULL, "free_name")

\* close_tun, WIN32
\* WIN32 close_tun that closes the handle without CancelIo
close_tun_win32_no_cancel(t) ==
  When(t.ipapi_context_defined, "DeleteIPAddress")
    \o When(t.options.dhcp_release, "dhcp_release")
    \o <<"overlapped_io_close_reads", "overlapped_io_close_writes">>
    \o When(t.hand # NULL, "CloseHandle")
    \o When(t.actual_name # NULL, "free_name")

close_tun_win32(t) ==
  When(t.ipapi_context_defined, "DeleteIPAddress")
    \o When(t.options.dhcp_release, "dhcp_release")
    \o When(t.hand # NULL, "CancelIo")
    \o <<"overlapped_io_close_reads", "overlapped_io_close_writes">>
    \o When(t.hand # NULL, "CloseHandle")
    \o When(t.actual_name # NULL, "free_name")

close_tun(b, t) ==
  IF IsLinux(b) THEN close_tun_linux(t)
  ELSE IF b = "solaris" THEN close_tun_solaris(t)
  ELSE IF b = "win32" THEN close_tun_win32(t)
  ELSE close_tun_generic(t)

Count(seq, x) == Cardinality({i \in DOMAIN seq : seq[i] = x})

\* The operating system after one releasing call of close_tun on object t;
\* ok: the external command or system call succeeded.
OsRelease(b, o, t, call, ok) ==
  IF call = "addr_del"
  THEN IF ~ok \/ t.actual_name = NULL THEN o
       ELSE IF b = "linux_iproute" THEN [o EXCEPT !.addr = @ \ {t.local}]
       ELSE [o EXCEPT !.addr = {}]
  ELSE IF call = "close_fd" THEN OsClose(o, t.fd, TRUE)
  ELSE IF call = "close_ip_fd" THEN OsClose(o, t.ip_fd, FALSE)
  ELSE IF call = "I_PUNLINK"
  THEN IF ok THEN [o EXCEPT !.addr = {}, !.route = {}] ELSE o
  ELSE IF call = "free_name" THEN [o EXCEPT !.names = @ - 1]
  ELSE IF call \in {"DeleteIPAddress", "dhcp_release"}
  THEN IF ok THEN [o EXCEPT !.addr = @ \ {t.local}] ELSE o
  ELSE IF call = "CloseHandle" THEN [o EXCEPT !.hand_open = FALSE]
  ELSE o

RECURSIVE OsReleaseAll(_, _, _, _, _)
OsReleaseAll(b, o, t, cs, ok) ==
  IF cs = <<>> THEN o
  ELSE OsReleaseAll(b, OsRelease(b, o, t, Head(cs), ok), t, Tail(cs), ok)

\* what close_tun did, for the record: a descriptor or handle closed that
\* was not open, a string freed that was not allocated
Released(b, t, o, ok) ==
  LET cs == close_tun(b, t)
  IN [calls |-> cs, ok |-> ok, pre |-> t, pre_fds |-> o.fds, pre_names |-> o.names,
      pre_hand_open |-> o.hand_open,
      bad_close |-> \/ Count(cs, "close_fd") > 0 /\ t.fd \notin o.fds
                    \/ Count(cs, "close_ip_fd") > 0 /\ t.ip_fd \notin o.fds
                    \/ Count(cs, "CloseHandle") > 0 /\ ~o.hand_open,
      bad_free |-> Count(cs, "free_name") > o.names]

\* CancelIo (tt->hand): the driver gives up every pending operation
CancelIo(d, cs) ==
  IF Count(cs, "CancelIo") = 0 THEN d
  ELSE [x \in Dirs |->
          IF d[x].st = "pending" THEN [st |-> "cancelled", size |-> 0]
          ELSE d[x]]

\* the two overlapped_io_close calls, then clear_tuntap's CLEAR of the
\* records
close_tun_io(i, cs) ==
  LET r == IF Count(cs, "overlapped_io_close_reads") > 0
           THEN overlapped_io_close(i.reads) ELSE i.reads
      w == IF Count(cs, "overlapped_io_close_writes") > 0
           THEN overlapped_io_close(i.writes) ELSE i.writes
  IN [IdleIo EXCEPT !.reads.event = r.event, !.writes.event = w.event]

CloseTun ==
  /\ ~aborted /\ alive
  /\ \E ok \in BOOLEAN :
       /\ os' = OsReleaseAll(build, os, tt, close_tun(build, tt), ok)
       /\ rel' = Released(build, tt, os, ok)
  /\ tt' = clear_tuntap
  /\ alive' = FALSE
  /\ calls' = Append(calls, "close_tun")
  /\ io' = IF IsWin(build) THEN close_tun_io(io, close_tun(build, tt)) ELSE io
  /\ drv' = CancelIo(drv, close_tun(build, tt))
  /\ iolog' = IF IsWin(build)
              THEN [IdleLog EXCEPT !.op = "close_tun",
                                   !.last_error = iolog.last_error]
              ELSE iolog
  /\ UNCHANGED <<px, fn, build, opt, aborted, snap, ns>>

\* close_tun (NULL): if (tt) is false and nothing happens
CloseTunNull ==
  /\ ~aborted /\ ~alive /\ calls # <<>>
  /\ calls[Len(calls)] # "close_tun(NULL)"
  /\ calls' = Append(calls, "close_tun(NULL)")
  /\ UNCHANGED <<px, fn, build, tt, alive, opt, aborted, os, rel, snap,
                 io, drv, iolog, ns>>


(***************************************************************************)
(* do_ifconfig.  An external command succeeds or fails as the operating    *)
(* system decides (c1, c2, c3: the commands in the order the code runs     *)
(* them); it cannot succeed without a device name.  A command run with     *)
(* S_FATAL ends the process when it fails.                                 *)
(***************************************************************************)
\* the subnet route add_route is given: local & netmask, netmask
SubnetRoute(t) == <<And32(t.local, t.remote_netmask), t.remote_netmask>>

AddAddr(o, t) == [o EXCEPT !.addr = @ \cup {t.local}]
AddRoute(o, t, route_ok) ==
  IF route_ok THEN [o EXCEPT !.route = @ \cup {SubnetRoute(t)}] ELSE o

Done(t, o) ==
  [tt |-> [t EXCEPT !.did_ifconfig = TRUE], os |-> o, fatal |-> FALSE,
   closed |-> FALSE]
Fatal(t, o) == [tt |-> t, os |-> o, fatal |-> TRUE, closed |-> FALSE]

\* TARGET_LINUX with CONFIG_FEATURE_IPROUTE: ip link set, ip addr add
do_ifconfig_iproute(t, o, c1, c2) ==
  IF ~c1 THEN Fatal(t, o)
  ELSE IF ~c2 THEN Fatal(t, o)
  ELSE Done(t, AddAddr(o, t))

\* one ifconfig command run with S_FATAL (Linux without iproute, NetBSD)
do_ifconfig_one(t, o, c1) ==
  IF ~c1 THEN Fatal(t, o) ELSE Done(t, AddAddr(o, t))

\* TARGET_OPENBSD: ifconfig destroy, ifconfig create, then the address
do_ifconfig_openbsd(t, o, c1, c2, c3) ==
  LET o1 == IF c1 THEN [o EXCEPT !.addr = {}, !.route = {}] ELSE o
  IN IF ~c3 THEN Fatal(t, o1) ELSE Done(t, AddAddr(o1, t))

\* TARGET_DARWIN: ifconfig delete, the address, then the subnet route
do_ifconfig_darwin(t, o, tun, c1, c2, route_ok) ==
  LET o1 == IF c1 THEN [o EXCEPT !.addr = {}] ELSE o
  IN IF ~c2 THEN Fatal(t, o1)
     ELSE IF ~tun /\ t.topology = TOP_SUBNET
     THEN Done(t, AddRoute(AddAddr(o1, t), t, route_ok))
     ELSE Done(t, AddAddr(o1, t))

\* TARGET_FREEBSD, TARGET_DRAGONFLY: the address, then the subnet route
do_ifconfig_freebsd(t, o, tun, c1, route_ok) ==
  IF ~c1 THEN Fatal(t, o)
  ELSE IF ~tun /\ t.topology = TOP_SUBNET
  THEN Done(t, AddRoute(AddAddr(o, t), t, route_ok))
  ELSE Done(t, AddAddr(o, t))

\* solaris_error_close: ifconfig unplumb, close_tun (tt), msg (M_FATAL)
solaris_error_close(t, o, unplumb_ok) ==
  LET o1 == IF unplumb_ok THEN [o EXCEPT !.addr = {}, !.route = {}] ELSE o
  IN [tt |-> clear_tuntap,
      os |-> OsReleaseAll("solaris", o1, t, close_tun_solaris(t), TRUE),
      fatal |-> TRUE, closed |-> TRUE]

\* TARGET_SOLARIS: for a point-to-point device two commands, else one; a
\* failing command closes the device and ends the process
do_ifconfig_solaris(t, o, tun, c1, c2, c3, route_ok) ==
  IF tun /\ ~c1 THEN solaris_error_close(t, o, c3)
  ELSE LET o1 == IF tun THEN AddAddr(o, t) ELSE o
       IN IF ~c2 THEN solaris_error_close(t, o1, c3)
          ELSE IF ~tun /\ t.topology = TOP_SUBNET
          THEN Done(t, AddRoute(AddAddr(o1, t), t, route_ok))
          ELSE Done(t, AddAddr(o1, t))

\* the not-found marker netsh_get_id returns
S_NULL == <<"N", "U", "L", "L">>

\* WIN32: the /30 check for a point-to-point device, then the method
do_ifconfig_win32(t, o, tun, actual, c1) ==
  IF tun /\ ~verify_255_255_255_252(t.local, t.remote_netmask) THEN Fatal(t, o)
  ELSE LET t1 == [t EXCEPT !.adapter_netmask =
                     IF tun THEN Not32(IP(0, 0, 0, 3)) ELSE t.remote_netmask]
       IN IF t.options.ip_win32_type = IPW32_SET_NETSH
          THEN IF strcmp_eq(actual, S_NULL) THEN Fatal(t1, o)
               ELSE IF ~c1 THEN Fatal(t1, o)
               ELSE Done(t1, AddAddr(o, t1))
          ELSE Done(t1, o)

\* the body of do_ifconfig's if (tt->did_ifconfig_setup), as the build
\* selects it
do_ifconfig_setup(b, t, o, actual, c1, c2, c3, route_ok) ==
  IF is_tun_p2p(t) = "fatal" THEN Fatal(t, o)
  ELSE LET tun == is_tun_p2p(t) = "true"
           x1 == c1 /\ actual # NULL
           x2 == c2 /\ actual # NULL
           x3 == c3 /\ actual # NULL
       IN IF b = "linux_iproute" THEN do_ifconfig_iproute(t, o, x1, x2)
          ELSE IF b \in {"linux_ifconfig", "linux_old", "netbsd"}
          THEN do_ifconfig_one(t, o, x1)
          ELSE IF b = "openbsd" THEN do_ifconfig_openbsd(t, o, x1, x2, x3)
          ELSE IF b = "darwin" THEN do_ifconfig_darwin(t, o, tun, x1, x2, route_ok)
          ELSE IF b = "freebsd" THEN do_ifconfig_freebsd(t, o, tun, x1, route_ok)
          ELSE IF b = "solaris"
          THEN do_ifconfig_solaris(t, o, tun, x1, x2, x3, route_ok)
          ELSE do_ifconfig_win32(t, o, tun, actual, x1)

\* do_ifconfig without the test of did_ifconfig_setup
do_ifconfig_unguarded(b, t, o, actual, c1, c2, c3, route_ok) ==
  do_ifconfig_setup(b, t, o, actual, c1, c2, c3, route_ok)

\* do_ifconfig: nothing unless did_ifconfig_setup
do_ifconfig(b, t, o, actual, c1, c2, c3, route_ok) ==
  IF ~t.did_ifconfig_setup
  THEN [tt |-> t, os |-> o, fatal |-> FALSE, closed |-> FALSE]
  ELSE do_ifconfig_setup(b, t, o, actual, c1, c2, c3, route_ok)

\* the device name the caller passes: the object's name once open_tun has
\* run, else guess_tuntap_dev's (dev, or netsh_get_id's answer on WIN32)
ActualNames ==
  IF \E i \in 1..Len(calls) : calls[i] = "open_tun" THEN {tt.actual_name}
  ELSE IF IsWin(build) /\ tt.type \in {DEV_TYPE_TUN, DEV_TYPE_TAP}
  THEN {<<"T", "A", "P">>, S_NULL}
  ELSE {opt.dev}

DoIfconfig ==
  /\ ~aborted /\ alive
  /\ Count(calls, "do_ifconfig") < MaxIfconfig
  /\ \E actual \in ActualNames, c1 \in BOOLEAN, c2 \in BOOLEAN, c3 \in BOOLEAN,
        route_ok \in BOOLEAN :
       LET r == do_ifconfig(build, tt, os, actual, c1, c2, c3, route_ok)
       IN /\ tt' = r.tt
          /\ os' = r.os
          /\ aborted' = r.fatal
          /\ alive' = ~r.closed
          /\ rel' = IF r.closed THEN Released(build, tt, os, TRUE) ELSE rel
  /\ calls' = Append(calls, "do_ifconfig")
  /\ UNCHANGED <<px, fn, build, opt, snap, io, drv, iolog, ns>>

(***************************************************************************)
(* The life cycle of tuntap objects on one build.                          *)
(***************************************************************************)
(***************************************************************************)
(* WIN32 overlapped I/O: tun_read_queue, tun_write_queue, tun_finalize.    *)
(* Each operator gives the record after the call; what ReadFile, WriteFile *)
(* and GetOverlappedResult report is an input.                             *)
(***************************************************************************)
Issued(r) == [io |-> r, aborted |-> FALSE, issued |-> TRUE]
AssertFailed(r) == [io |-> r, aborted |-> TRUE, issued |-> FALSE]

\* queue_result without the SetEvent of an immediate return
queue_result_no_set_event(r, err, n) ==
  IF err = NO_ERROR
  THEN Issued([r EXCEPT !.event = "reset",
                        !.iostate = IOSTATE_IMMEDIATE_RETURN,
                        !.status = NO_ERROR, !.size = n])
  ELSE IF err = ERROR_IO_PENDING
  THEN Issued([r EXCEPT !.event = "reset", !.iostate = IOSTATE_QUEUED,
                        !.status = err])
  ELSE Issued([r EXCEPT !.event = "signaled",
                        !.iostate = IOSTATE_IMMEDIATE_RETURN,
                        !.status = err])

\* what follows ReadFile / WriteFile in both functions: err is NO_ERROR when
\* the call returned TRUE with n bytes, and GetLastError () otherwise
queue_result(r, err, n) ==
  IF err = NO_ERROR
  THEN Issued([r EXCEPT !.event = "signaled",
                        !.iostate = IOSTATE_IMMEDIATE_RETURN,
                        !.status = NO_ERROR, !.size = n])
  ELSE IF err = ERROR_IO_PENDING
  THEN Issued([r EXCEPT !.event = "reset", !.iostate = IOSTATE_QUEUED,
                        !.status = err])
  ELSE Issued([r EXCEPT !.event = "signaled",
                        !.iostate = IOSTATE_IMMEDIATE_RETURN,
                        !.status = err])

\* tun_read_queue without the test of the state: ReadFile is called
\* whatever the state is
tun_read_queue_any_state(r, maxsize, err, n) ==
  LET len == IF maxsize # 0 THEN maxsize ELSE MaxLen
  IN IF len > MaxLen \/ r.event = "none" THEN AssertFailed(r)
     ELSE queue_result(r, err, n)

\* tun_read_queue (tt, maxsize): ASSERT (len <= BLEN) and
\* ASSERT (ResetEvent (hEvent)) end the process when they fail
tun_read_queue(r, maxsize, err, n) ==
  IF r.iostate # IOSTATE_INITIAL
  THEN [io |-> r, aborted |-> FALSE, issued |-> FALSE]
  ELSE LET len == IF maxsize # 0 THEN maxsize ELSE MaxLen
       IN IF len > MaxLen \/ r.event = "none" THEN AssertFailed(r)
          ELSE queue_result(r, err, n)

\* tun_write_queue (tt, buf): ASSERT (buf_copy (...)) and
\* ASSERT (ResetEvent (hEvent)) end the process when they fail
tun_write_queue(r, buf_copy_ok, err, n) ==
  IF r.iostate # IOSTATE_INITIAL
  THEN [io |-> r, aborted |-> FALSE, issued |-> FALSE]
  ELSE IF ~buf_copy_ok \/ r.event = "none" THEN AssertFailed(r)
  ELSE queue_result(r, err, n)

\* what ReadFile / WriteFile can report on the handle
OsOutcomes(hand) ==
  IF hand = NULL THEN {ERROR_INVALID_HANDLE}
  ELSE {NO_ERROR, ERROR_IO_PENDING, ERROR_GEN_FAILURE}

\* the caller reads and writes a device it has opened
IoEnabled ==
  /\ IsWin(build) /\ ~aborted /\ alive
  /\ \E i \in 1..Len(calls) : calls[i] = "open_tun"

\* the state after a queue call on direction d that gave q
Queue(d, op, q, err) ==
  /\ q.issued => io.issued.reads + io.issued.writes < MaxOps
  /\ io' = [io EXCEPT ![d] = q.io,
                      !.issued[d] = IF q.issued THEN @ + 1 ELSE @]
  /\ drv' = IF q.issued /\ err = ERROR_IO_PENDING
            THEN [drv EXCEPT ![d] = [st |-> "pending", size |-> 0]]
            ELSE drv
  /\ aborted' = q.aborted
  /\ iolog' = [op |-> op, dir |-> d, err |-> err, ret |-> 0,
               state |-> q.io.iostate,
               last_error |-> IF q.issued /\ err # NO_ERROR THEN err
                              ELSE iolog.last_error]
  /\ UNCHANGED <<px, fn, build, tt, alive, opt, calls, os, rel, snap, ns>>

TunReadQueue ==
  /\ IoEnabled
  /\ \E maxsize \in {0, MaxLen, MaxLen + 1}, err \in OsOutcomes(tt.hand),
        n \in {0, MaxLen} :
       /\ (err # NO_ERROR => n = 0)
       /\ Queue("reads", "tun_read_queue",
                tun_read_queue(io.reads, maxsize, err, n), err)

TunWriteQueue ==
  /\ IoEnabled
  /\ \E buf_copy_ok \in BOOLEAN, err \in OsOutcomes(tt.hand),
        n \in {0, MaxLen} :
       /\ (err # NO_ERROR => n = 0)
       /\ Queue("writes", "tun_write_queue",
                tun_write_queue(io.writes, buf_copy_ok, err, n), err)

\* the driver finishes a pending operation and signals its event
OsComplete(d) ==
  /\ IsWin(build) /\ ~aborted /\ alive
  /\ drv[d].st = "pending"
  /\ \E ok \in BOOLEAN, n \in {0, MaxLen} :
       /\ (~ok => n = 0)
       /\ drv' = [drv EXCEPT ![d] = [st |-> IF ok THEN "done_ok" ELSE "done_err",
                                     size |-> n]]
  /\ io' = [io EXCEPT ![d].event = "signaled"]
  /\ iolog' = [IdleLog EXCEPT !.op = "os_complete", !.dir = d,
                              !.state = io[d].iostate,
                              !.last_error = iolog.last_error]
  /\ UNCHANGED <<px, fn, build, tt, alive, opt, calls, aborted, os, rel, snap, ns>>

\* GetOverlappedResult (h, &io->overlapped, &io->size, FALSE): NO_ERROR for
\* TRUE, and GetLastError () otherwise
GetOverlappedResult(dv) ==
  IF dv.st = "done_ok" THEN NO_ERROR
  ELSE IF dv.st = "pending" THEN ERROR_IO_INCOMPLETE
  ELSE IF dv.st = "cancelled" THEN ERROR_OPERATION_ABORTED
  ELSE ERROR_GEN_FAILURE

\* tun_finalize, case IOSTATE_QUEUED that resets the state whatever
\* GetLastError () is
tun_finalize_queued_no_incomplete_test(r, dv, le) ==
  IF GetOverlappedResult(dv) = NO_ERROR
  THEN [io |-> [r EXCEPT !.size = dv.size, !.iostate = IOSTATE_INITIAL,
                         !.event = "reset"],
        ret |-> dv.size, last_error |-> le]
  ELSE [io |-> [r EXCEPT !.iostate = IOSTATE_INITIAL, !.event = "reset"],
        ret |-> -1, last_error |-> GetOverlappedResult(dv)]

\* tun_finalize, case IOSTATE_QUEUED
tun_finalize_queued(r, dv, le) ==
  IF GetOverlappedResult(dv) = NO_ERROR
  THEN [io |-> [r EXCEPT !.size = dv.size, !.iostate = IOSTATE_INITIAL,
                         !.event = "reset"],
        ret |-> dv.size, last_error |-> le]
  ELSE IF GetOverlappedResult(dv) # ERROR_IO_INCOMPLETE
  THEN [io |-> [r EXCEPT !.iostate = IOSTATE_INITIAL, !.event = "reset"],
        ret |-> -1, last_error |-> GetOverlappedResult(dv)]
  ELSE [io |-> r, ret |-> -1, last_error |-> ERROR_IO_INCOMPLETE]

\* tun_finalize, case IOSTATE_IMMEDIATE_RETURN that leaves the state
tun_finalize_immediate_keeps_state(r, le) ==
  IF r.status # NO_ERROR
  THEN [io |-> [r EXCEPT !.event = "reset"], ret |-> -1,
        last_error |-> r.status]
  ELSE [io |-> [r EXCEPT !.event = "reset"], ret |-> r.size,
        last_error |-> le]

\* tun_finalize, case IOSTATE_IMMEDIATE_RETURN
tun_finalize_immediate(r, le) ==
  IF r.status # NO_ERROR
  THEN [io |-> [r EXCEPT !.iostate = IOSTATE_INITIAL, !.event = "reset"],
        ret |-> -1, last_error |-> r.status]
  ELSE [io |-> [r EXCEPT !.iostate = IOSTATE_INITIAL, !.event = "reset"],
        ret |-> r.size, last_error |-> le]

\* tun_finalize, case IOSTATE_INITIAL that resets the event as the other
\* cases do
tun_finalize_initial_resets_event(r, le) ==
  [io |-> [r EXCEPT !.event = "reset"], ret |-> -1,
   last_error |-> ERROR_INVALID_FUNCTION]

\* tun_finalize, case IOSTATE_INITIAL
tun_finalize_initial(r, le) ==
  [io |-> r, ret |-> -1, last_error |-> ERROR_INVALID_FUNCTION]

\* tun_finalize (h, io, buf): buf->len and the value returned are ret
tun_finalize(r, dv, le) ==
  IF r.iostate = IOSTATE_QUEUED THEN tun_finalize_queued(r, dv, le)
  ELSE IF r.iostate = IOSTATE_IMMEDIATE_RETURN
  THEN tun_finalize_immediate(r, le)
  ELSE tun_finalize_initial(r, le)

TunFinalize(d) ==
  /\ IoEnabled
  /\ LET f == tun_finalize(io[d], drv[d], iolog.last_error)
         reset == io[d].iostate # IOSTATE_INITIAL
                    /\ f.io.iostate = IOSTATE_INITIAL
     IN /\ io' = [io EXCEPT ![d] = f.io,
                            !.completed[d] = IF reset THEN @ + 1 ELSE @]
        /\ drv' = IF reset THEN [drv EXCEPT ![d] = [st |-> "idle", size |-> 0]]
                  ELSE drv
        /\ iolog' = [op |-> "tun_finalize", dir |-> d,
                     err |-> GetOverlappedResult(drv[d]), ret |-> f.ret,
                     state |-> f.io.iostate, last_error |-> f.last_error]
  /\ UNCHANGED <<px, fn, build, tt, alive, opt, calls, aborted, os, rel, snap, ns>>

\* the caller's event loop: tun_finalize when the direction's event is
\* signaled
TunFinalizeSignaled(d) ==
  /\ io[d].event = "signaled"
  /\ TunFinalize(d)

(***************************************************************************)
(* netsh_command and its callers.  The log holds the sleeps, the mutex     *)
(* calls and the executions of one call, in order.                         *)
(***************************************************************************)
\* netsh_ifconfig: netsh_command (&argv, 4) for "set address ... static"
NetshIfconfigTries == 4

\* netsh_enable_dhcp: netsh_command (&argv, 4) for "set address ... dhcp"
NetshEnableDhcpTries == 4

\* netsh_ifconfig_options: netsh_command (&argv, 2) for "delete <type> all"
NetshDeleteTries == 2

\* netsh_ifconfig_options: netsh_command (&argv, 2) for "set <type> static"
\* and "add <type>"
NetshSetAddTries == 2

OptionTypes == {"dns", "wins"}

\* the calls of netsh_command: the command and the n passed with it
NetshCalls ==
  {[cmd |-> <<"set", "address", "static">>, n |-> NetshIfconfigTries],
   [cmd |-> <<"set", "address", "dhcp">>, n |-> NetshEnableDhcpTries]}
    \cup {[cmd |-> <<"delete", type, "all">>, n |-> NetshDeleteTries] :
            type \in OptionTypes}
    \cup {[cmd |-> <<verb, type, "static">>, n |-> NetshSetAddTries] :
            verb \in {"set", "add"}, type \in OptionTypes}

IdleNs ==
  [pc |-> "idle", cmd |-> <<>>, n |-> 0, i |-> 0, status |-> FALSE,
   mutex |-> "free", log |-> <<>>]

NetshStep(n1) ==
  /\ ns' = n1
  /\ UNCHANGED <<px, fn, build, tt, alive, opt, calls, aborted, os, rel, snap,
                 io, drv, iolog>>

\* a caller calls netsh_command (a, n): i = 0
NetshCommand ==
  /\ ns.pc \in {"idle", "returned"}
  /\ \E c \in NetshCalls :
       NetshStep([IdleNs EXCEPT !.pc = "loop", !.cmd = c.cmd, !.n = c.n])

\* the loop test that admits one more round
netsh_loop_test_le(i, n) == i <= n

\* for (i = 0; i < n; ++i)
netsh_loop_test(i, n) == i < n

\* openvpn_sleep (1) at the head of each round
NetshSleep1 ==
  /\ ns.pc = "loop" /\ netsh_loop_test(ns.i, ns.n)
  /\ NetshStep([ns EXCEPT !.pc = "lock", !.log = Append(@, "sleep 1")])

\* msg (M_FATAL, "NETSH: command failed") after the loop
NetshFatal ==
  /\ ns.pc = "loop" /\ ~netsh_loop_test(ns.i, ns.n)
  /\ NetshStep([ns EXCEPT !.pc = "fatal", !.log = Append(@, "fatal")])

\* netcmd_semaphore_lock ()
NetshLock ==
  /\ ns.pc = "lock" /\ ns.mutex = "free"
  /\ NetshStep([ns EXCEPT !.pc = "exec", !.mutex = "held",
                          !.log = Append(@, "lock")])

\* status = openvpn_execve_check (a, NULL, 0, ...): a failure is reported
\* and returned, never fatal
NetshExec ==
  /\ ns.pc = "exec"
  /\ \E ok \in BOOLEAN :
       NetshStep([ns EXCEPT !.pc = "release", !.status = ok,
                            !.log = Append(@, IF ok THEN "exec ok"
                                              ELSE "exec failed")])

\* netcmd_semaphore_release (); if (status) return;
NetshRelease ==
  /\ ns.pc = "release"
  /\ NetshStep([ns EXCEPT !.pc = IF ns.status THEN "returned" ELSE "sleep4",
                          !.mutex = "free", !.log = Append(@, "release")])

\* openvpn_sleep (4); ++i
NetshSleep4 ==
  /\ ns.pc = "sleep4"
  /\ NetshStep([ns EXCEPT !.pc = "loop", !.i = @ + 1,
                          !.log = Append(@, "sleep 4")])

(***************************************************************************)
(* Several processes of one machine running external commands: WIN32       *)
(* processes in netsh_command and ipconfig_register_dns, which share the   *)
(* named semaphore, and TARGET_LINUX processes in do_ifconfig.  A command  *)
(* runs from the step that starts it to the step that ends it.             *)
(***************************************************************************)
\* processes of the machine
NProcs == 2

Procs == 1..NProcs

\* a process outside any of the functions
IdleProc == [pc |-> "idle", fun |-> "none", i |-> 0, n |-> 0, k |-> 0,
             status |-> FALSE]

\* semaphore: 0 when free, else the process that holds it
IdlePx == [semaphore |-> 0, proc |-> [p \in Procs |-> IdleProc]]

\* netcmd_semaphore_lock () can return in process p: the semaphore is free
netcmd_semaphore_lock_enabled(sem, p) == sem = 0

\* netcmd_semaphore_lock () has returned in process p
netcmd_semaphore_lock(sem, p) == p

\* netcmd_semaphore_release ()
netcmd_semaphore_release(sem, p) == 0

\* the builds whose processes run here
CmdBuilds == {"win32", "linux_iproute", "linux_ifconfig"}

\* do_ifconfig, TARGET_LINUX: the commands it runs, each with S_FATAL
LinuxIfconfigCommands(b) == IF b = "linux_iproute" THEN 2 ELSE 1

\* ipconfig_register_dns: net stop dnscache, net start dnscache,
\* ipconfig /flushdns, ipconfig /registerdns
RegisterDnsCommands == 4

CmdStep(p, q, sem) ==
  /\ px' = [px EXCEPT !.proc[p] = q, !.semaphore = sem]
  /\ UNCHANGED <<lvars, iovars, nvars, fn>>

\* one round of netsh_command that runs the command without the semaphore
netsh_round_no_lock(pc, status) ==
  IF pc = "sleep1" THEN "exec"
  ELSE IF pc = "lock" THEN "exec"
  ELSE IF pc = "exec" THEN "running"
  ELSE IF pc = "running" THEN "release"
  ELSE IF pc = "release" THEN (IF status THEN "idle" ELSE "sleep4")
  ELSE "sleep1"

\* one round of netsh_command that releases the semaphore only after a
\* command that succeeded
netsh_round_release_on_success(pc, status) ==
  IF pc = "sleep1" THEN "lock"
  ELSE IF pc = "lock" THEN "exec"
  ELSE IF pc = "exec" THEN "running"
  ELSE IF pc = "running" THEN (IF status THEN "release" ELSE "sleep4")
  ELSE IF pc = "release" THEN (IF status THEN "idle" ELSE "sleep4")
  ELSE "sleep1"

\* one round of netsh_command: openvpn_sleep (1), netcmd_semaphore_lock (),
\* openvpn_execve_check (the command starts, the command ends),
\* netcmd_semaphore_release (), return or openvpn_sleep (4)
netsh_round(pc, status) ==
  IF pc = "sleep1" THEN "lock"
  ELSE IF pc = "lock" THEN "exec"
  ELSE IF pc = "exec" THEN "running"
  ELSE IF pc = "running" THEN "release"
  ELSE IF pc = "release" THEN (IF status THEN "idle" ELSE "sleep4")
  ELSE "sleep1"

\* process p calls netsh_command (a, n)
PNetshCommand(p) ==
  /\ IsWin(build) /\ px.proc[p].pc = "idle"
  /\ \E c \in NetshCalls :
       CmdStep(p, [IdleProc EXCEPT !.pc = "sleep1", !.fun = "netsh_command",
                                   !.n = c.n],
               px.semaphore)

\* for (i = 0; i < n; ++i) { openvpn_sleep (1);
PNetshSleep1(p) ==
  LET q == px.proc[p]
  IN /\ q.fun = "netsh_command" /\ q.pc = "sleep1"
     /\ netsh_loop_test(q.i, q.n)
     /\ CmdStep(p, [q EXCEPT !.pc = netsh_round(q.pc, q.status)], px.semaphore)

\* msg (M_FATAL, "NETSH: command failed")
PNetshFatal(p) ==
  LET q == px.proc[p]
  IN /\ q.fun = "netsh_command" /\ q.pc = "sleep1"
     /\ ~netsh_loop_test(q.i, q.n)
     /\ CmdStep(p, [q EXCEPT !.pc = "fatal"], px.semaphore)

\* netcmd_semaphore_lock ()
PNetshLock(p) ==
  LET q == px.proc[p]
  IN /\ q.fun = "netsh_command" /\ q.pc = "lock"
     /\ netcmd_semaphore_lock_enabled(px.semaphore, p)
     /\ CmdStep(p, [q EXCEPT !.pc = netsh_round(q.pc, q.status)],
                netcmd_semaphore_lock(px.semaphore, p))

\* openvpn_execve_check: the command starts
PNetshExecStart(p) ==
  LET q == px.proc[p]
  IN /\ q.fun = "netsh_command" /\ q.pc = "exec"
     /\ CmdStep(p, [q EXCEPT !.pc = netsh_round(q.pc, q.status)], px.semaphore)

\* openvpn_execve_check: the command ends and status is its success
PNetshExecEnd(p) ==
  LET q == px.proc[p]
  IN /\ q.fun = "netsh_command" /\ q.pc = "running"
     /\ \E ok \in BOOLEAN :
          CmdStep(p, [q EXCEPT !.pc = netsh_round(q.pc, ok), !.status = ok],
                  px.semaphore)

\* netcmd_semaphore_release (); if (status) return;
PNetshRelease(p) ==
  LET q == px.proc[p]
  IN /\ q.fun = "netsh_command" /\ q.pc = "release"
     /\ CmdStep(p, IF q.status THEN IdleProc
                   ELSE [q EXCEPT !.pc = netsh_round(q.pc, q.status)],
                netcmd_semaphore_release(px.semaphore, p))

\* openvpn_sleep (4); ++i
PNetshSleep4(p) ==
  LET q == px.proc[p]
  IN /\ q.fun = "netsh_command" /\ q.pc = "sleep4"
     /\ CmdStep(p, [q EXCEPT !.pc = netsh_round(q.pc, q.status), !.i = @ + 1],
                px.semaphore)

\* process p calls ipconfig_register_dns (es)
PRegisterDns(p) ==
  /\ IsWin(build) /\ px.proc[p].pc = "idle"
  /\ CmdStep(p, [IdleProc EXCEPT !.pc = "lock",
                                 !.fun = "ipconfig_register_dns",
                                 !.k = RegisterDnsCommands],
             px.semaphore)

\* ipconfig_register_dns: netcmd_semaphore_lock ()
PRegisterDnsLock(p) ==
  LET q == px.proc[p]
  IN /\ q.fun = "ipconfig_register_dns" /\ q.pc = "lock"
     /\ netcmd_semaphore_lock_enabled(px.semaphore, p)
     /\ CmdStep(p, [q EXCEPT !.pc = "exec"],
                netcmd_semaphore_lock(px.semaphore, p))

\* ipconfig_register_dns: one of its commands starts
PRegisterDnsExecStart(p) ==
  LET q == px.proc[p]
  IN /\ q.fun = "ipconfig_register_dns" /\ q.pc = "exec"
     /\ CmdStep(p, [q EXCEPT !.pc = "running"], px.semaphore)

\* ipconfig_register_dns: the command ends; its status is ignored
PRegisterDnsExecEnd(p) ==
  LET q == px.proc[p]
  IN /\ q.fun = "ipconfig_register_dns" /\ q.pc = "running"
     /\ \E ok \in BOOLEAN :
          CmdStep(p, [q EXCEPT !.pc = IF q.k = 1 THEN "release" ELSE "exec",
                               !.k = @ - 1, !.status = ok],
                  px.semaphore)

\* ipconfig_register_dns: netcmd_semaphore_release ()
PRegisterDnsRelease(p) ==
  LET q == px.proc[p]
  IN /\ q.fun = "ipconfig_register_dns" /\ q.pc = "release"
     /\ CmdStep(p, IdleProc, netcmd_semaphore_release(px.semaphore, p))

\* process p calls do_ifconfig, TARGET_LINUX, with did_ifconfig_setup
PLinuxIfconfig(p) ==
  /\ IsLinux(build) /\ px.proc[p].pc = "idle"
  /\ CmdStep(p, [IdleProc EXCEPT !.pc = "exec", !.fun = "do_ifconfig",
                                 !.k = LinuxIfconfigCommands(build)],
             px.semaphore)

\* do_ifconfig: openvpn_execve_check (&argv, es, S_FATAL, ...) starts
PLinuxExecStart(p) ==
  LET q == px.proc[p]
  IN /\ q.fun = "do_ifconfig" /\ q.pc = "exec"
     /\ CmdStep(p, [q EXCEPT !.pc = "running"], px.semaphore)

\* do_ifconfig: the command ends; S_FATAL ends the process when it failed
PLinuxExecEnd(p) ==
  LET q == px.proc[p]
  IN /\ q.fun = "do_ifconfig" /\ q.pc = "running"
     /\ \E ok \in BOOLEAN :
          CmdStep(p, IF ~ok THEN [q EXCEPT !.pc = "fatal", !.status = FALSE]
                     ELSE IF q.k = 1 THEN IdleProc
                     ELSE [q EXCEPT !.pc = "exec", !.k = @ - 1,
                                    !.status = TRUE],
                  px.semaphore)

\* no function has been called
IdleFn == [op |-> "none"]

(***************************************************************************)
(* Calls of the file's functions: fn holds the function called, its        *)
(* arguments and, once the call has returned, its result.                  *)
(***************************************************************************)
\* a call of op with args that has not returned yet
Call(op, args) == [op |-> op, args |-> args, done |-> FALSE, out |-> <<>>]

\* the call has returned out
Return(out) ==
  /\ ~fn.done
  /\ fn' = [fn EXCEPT !.done = TRUE, !.out = out]
  /\ UNCHANGED <<lvars, iovars, nvars, px>>

\* --dev and --dev-type strings, and NULL for an option not given
DevNames ==
  {NULL, <<>>, <<"t", "u">>, S_tun, S_tun \o <<"7">>, S_tun \o <<"n", "e", "l">>,
   S_tap, S_tap \o <<"0">>, <<"n", "u", "l">>, S_null, S_foo,
   <<"x">> \o S_tun, <<"T", "U", "N">>, S_null \o S_tun}

DevTypeCalls == {Call("dev_type_enum", <<dev, dev_type>>) :
                   dev \in DevNames, dev_type \in DevNames}

\* dev_type_enum (dev, dev_type)
DevTypeEnum ==
  /\ fn.op = "dev_type_enum"
  /\ Return(dev_type_enum(fn.args[1], fn.args[2]))

DevKinds == {DEV_TYPE_UNDEF, DEV_TYPE_NULL, DEV_TYPE_TUN, DEV_TYPE_TAP}
AllTopologies == {TOP_UNDEF, TOP_NET30, TOP_P2P, TOP_SUBNET}

IsTunP2pCalls == {Call("is_tun_p2p", [type |-> k, topology |-> t]) :
                    k \in DevKinds, t \in AllTopologies}

\* is_tun_p2p (tt)
IsTunP2p ==
  /\ fn.op = "is_tun_p2p"
  /\ Return(is_tun_p2p(fn.args))

\* --ifconfig endpoints: the /30 of 10.7.0.4 and its neighbours, and the
\* first and the last /30 of the address space
Endpoints ==
  {IP(10, 7, 0, d) : d \in 3..9}
    \cup {IP(10, 7, 1, 5), IP(11, 7, 0, 6), IP(10, 7, 0, 254)}
    \cup {IP(0, 0, 0, d) : d \in 0..3}
    \cup {IP(255, 255, 255, d) : d \in 252..255}

VerifyCalls == {Call("verify_255_255_255_252", <<l, r>>) :
                  l \in Endpoints, r \in Endpoints}

\* verify_255_255_255_252 (local, remote)
Verify255 ==
  /\ fn.op = "verify_255_255_255_252"
  /\ Return([fatal |-> ~verify_255_255_255_252(fn.args[1], fn.args[2]),
             err |-> verify_255_255_255_252_err(fn.args[1], fn.args[2])])

\* --dev and --dev-type of a Tun, a Tap, a Null and an unknown device
InitTunDevices ==
  {<<S_tun, NULL>>, <<S_foo, S_tap>>, <<S_null, NULL>>, <<S_foo, NULL>>}

\* --ifconfig parameters, NULL for one not given
InitTunParms ==
  {<<NULL, NULL>>, <<IP(10, 8, 0, 2), NULL>>, <<NULL, IP(10, 8, 0, 1)>>,
   <<IP(10, 8, 0, 2), IP(10, 8, 0, 1)>>,
   <<IP(192, 168, 50, 1), IP(255, 255, 255, 0)>>,
   <<IP(10, 0, 0, 1), IP(255, 255, 255, 0)>>}

\* local_public and remote_public, 0 for one not defined
PublicAddrs ==
  {<<ADDR0, ADDR0>>, <<IP(10, 8, 0, 2), ADDR0>>,
   <<ADDR0, IP(192, 168, 50, 77)>>}

Gateways ==
  {NoGateway,
   [ok |-> TRUE, gw |-> IP(192, 168, 50, 254), netmask |-> IP(255, 255, 255, 0)]}

Envs == {NoEnv, Env({<<"dev", S_tun>>})}

\* (getaddr cannot fail on a parameter that is not given to it)
InitTunCalls ==
  {c \in
     {Call("init_tun",
           [dev |-> d[1], dev_type |-> d[2], topology |-> top,
            local |-> parms[1], remote |-> parms[2],
            local_public |-> pub[1], remote_public |-> pub[2],
            strict_warn |-> strict_warn, es |-> es, resolved |-> resolved,
            lan |-> lan]) :
        d \in InitTunDevices, top \in Topologies, parms \in InitTunParms,
        pub \in PublicAddrs, strict_warn \in BOOLEAN, es \in Envs,
        resolved \in BOOLEAN, lan \in Gateways} :
     c.args.resolved \/ (c.args.local # NULL /\ c.args.remote # NULL)}

\* init_tun (dev, dev_type, topology, ifconfig_local_parm,
\* ifconfig_remote_netmask_parm, local_public, remote_public, strict_warn, es)
InitTunFn ==
  /\ fn.op = "init_tun"
  /\ LET a == fn.args
     IN Return(init_tun(a.dev, a.dev_type, a.topology, a.local, a.remote,
                        a.local_public, a.remote_public, a.strict_warn,
                        a.es, a.resolved, a.lan))

\* do_ifconfig (tt, actual, tun_mtu, es) on the object init_tun returned;
\* succeed: whether the external commands it may run succeed
DoIfconfigFn ==
  /\ fn.op = "init_tun" /\ fn.done /\ ~fn.out.fatal
  /\ \E succeed \in BOOLEAN :
       LET actual == IF IsWin(build) THEN <<"T", "A", "P">> ELSE fn.args.dev
       IN fn' = [op |-> "do_ifconfig",
                 args |-> [init |-> fn.args, tt |-> fn.out.tt,
                           actual |-> actual, succeed |-> succeed],
                 done |-> TRUE,
                 out |-> do_ifconfig(build, fn.out.tt, os, actual, succeed,
                                     succeed, succeed, succeed)]
  /\ UNCHANGED <<lvars, iovars, nvars, px>>

(***************************************************************************)
(* DHCP options for the TAP-Win32 driver: build_dhcp_options_string and    *)
(* the part of open_tun that calls it.  A struct buffer is the bytes       *)
(* written to it; a string is its bytes.                                   *)
(***************************************************************************)
\* open_tun: struct buffer buf = alloc_buf (256)
DhcpBufCapacity == 256

\* buf_safe (buf, len): len more bytes fit
buf_safe(buf, len) == Len(buf) + len <= DhcpBufCapacity

\* buf_write_u8 (buf, data): the low byte of data
buf_write_u8(buf, data) == Append(buf, data % 256)

\* buf_write (buf, src, size)
buf_write(buf, src) == buf \o src

\* a uint32_t is its four bytes, most significant first; htonl on the
\* little-endian host swaps them
htonl(x) == <<x[4], x[3], x[2], x[1]>>

\* the bytes of a uint32_t in the memory of the little-endian host
HostMemory(x) == <<x[4], x[3], x[2], x[1]>>

\* buf_write_u32 (buf, data): u32 = htonl (data); buf_write (buf, &u32, 4)
buf_write_u32(buf, data) == buf_write(buf, HostMemory(htonl(data)))

RECURSIVE buf_write_u32_each(_, _)
\* for (i = 0; i < len; ++i) buf_write_u32 (buf, data[i])
buf_write_u32_each(buf, data) ==
  IF data = <<>> THEN buf
  ELSE buf_write_u32_each(buf_write_u32(buf, Head(data)), Tail(data))

\* a const char * option: NULL, or the bytes of the string
NoStr == [null |-> TRUE, str |-> <<>>]
Str(s) == [null |-> FALSE, str |-> s]

\* the encoder: the buffer and bool error
Encoder(buf, error) == [buf |-> buf, error |-> error]

\* write_dhcp_u8 (buf, type, data, &error)
write_dhcp_u8(e, type, data) ==
  IF ~buf_safe(e.buf, 3) THEN [e EXCEPT !.error = TRUE]
  ELSE [e EXCEPT !.buf = buf_write_u8(buf_write_u8(buf_write_u8(@, type), 1),
                                      data)]

\* write_dhcp_u32_array that writes the number of addresses as the length
write_dhcp_u32_array_len_count(e, type, data) ==
  IF Len(data) > 0
  THEN LET size == Len(data) * 4
       IN IF ~buf_safe(e.buf, 2 + size) THEN [e EXCEPT !.error = TRUE]
          ELSE IF size < 1 \/ size > 255 THEN [e EXCEPT !.error = TRUE]
          ELSE [e EXCEPT !.buf =
                  buf_write_u32_each(
                    buf_write_u8(buf_write_u8(@, type), Len(data)), data)]
  ELSE e

\* write_dhcp_u32_array (buf, type, data, len, &error)
write_dhcp_u32_array(e, type, data) ==
  IF Len(data) > 0
  THEN LET size == Len(data) * 4
       IN IF ~buf_safe(e.buf, 2 + size) THEN [e EXCEPT !.error = TRUE]
          ELSE IF size < 1 \/ size > 255 THEN [e EXCEPT !.error = TRUE]
          ELSE [e EXCEPT !.buf =
                  buf_write_u32_each(
                    buf_write_u8(buf_write_u8(@, type), size), data)]
  ELSE e

\* write_dhcp_str (buf, type, str, &error)
write_dhcp_str(e, type, str) ==
  LET len == Len(str)
  IN IF ~buf_safe(e.buf, 2 + len) THEN [e EXCEPT !.error = TRUE]
     ELSE IF len < 1 \/ len > 255 THEN [e EXCEPT !.error = TRUE]
     ELSE [e EXCEPT !.buf =
             buf_write(buf_write_u8(buf_write_u8(@, type), len), str)]

\* build_dhcp_options_string that returns at the first option that fails
build_dhcp_options_string_stops(buf, o) ==
  LET e0 == Encoder(buf, FALSE)
      e1 == IF ~o.domain.null THEN write_dhcp_str(e0, 15, o.domain.str) ELSE e0
      e2 == IF e1.error THEN e1
            ELSE IF ~o.netbios_scope.null
            THEN write_dhcp_str(e1, 47, o.netbios_scope.str) ELSE e1
      e3 == IF e2.error THEN e2
            ELSE IF o.netbios_node_type # 0
            THEN write_dhcp_u8(e2, 46, o.netbios_node_type) ELSE e2
      e4 == IF e3.error THEN e3 ELSE write_dhcp_u32_array(e3, 6, o.dns)
      e5 == IF e4.error THEN e4 ELSE write_dhcp_u32_array(e4, 44, o.wins)
      e6 == IF e5.error THEN e5 ELSE write_dhcp_u32_array(e5, 42, o.ntp)
      e7 == IF e6.error THEN e6 ELSE write_dhcp_u32_array(e6, 45, o.nbdd)
  IN IF o.disable_nbt /\ ~e7.error
     THEN IF ~buf_safe(e7.buf, 8) THEN [buf |-> e7.buf, ok |-> FALSE]
          ELSE [buf |-> buf_write_u32(
                          buf_write_u8(buf_write_u8(buf_write_u8(
                            buf_write_u8(e7.buf, 43), 6), 1), 4),
                          <<0, 0, 0, 2>>),
                ok |-> ~e7.error]
     ELSE [buf |-> e7.buf, ok |-> ~e7.error]

\* build_dhcp_options_string (buf, o): the buffer after the call and the
\* value returned
build_dhcp_options_string(buf, o) ==
  LET e0 == Encoder(buf, FALSE)
      e1 == IF ~o.domain.null THEN write_dhcp_str(e0, 15, o.domain.str) ELSE e0
      e2 == IF ~o.netbios_scope.null
            THEN write_dhcp_str(e1, 47, o.netbios_scope.str) ELSE e1
      e3 == IF o.netbios_node_type # 0
            THEN write_dhcp_u8(e2, 46, o.netbios_node_type) ELSE e2
      e4 == write_dhcp_u32_array(e3, 6, o.dns)
      e5 == write_dhcp_u32_array(e4, 44, o.wins)
      e6 == write_dhcp_u32_array(e5, 42, o.ntp)
      e7 == write_dhcp_u32_array(e6, 45, o.nbdd)
  IN IF o.disable_nbt
     THEN IF ~buf_safe(e7.buf, 8) THEN [buf |-> e7.buf, ok |-> FALSE]
          ELSE [buf |-> buf_write_u32(
                          buf_write_u8(buf_write_u8(buf_write_u8(
                            buf_write_u8(e7.buf, 43), 6), 1), 4),
                          <<0, 0, 0, 2>>),
                ok |-> ~e7.error]
     ELSE [buf |-> e7.buf, ok |-> ~e7.error]

\* open_tun, WIN32, if (tt->options.dhcp_options): the buffer given to
\* DeviceIoControl (TAP_IOCTL_CONFIG_DHCP_SET_OPT), if it is called, the
\* messages and whether the process ends; ioctl_ok: the driver accepts
open_tun_dhcp_options(o, ioctl_ok) ==
  LET b == build_dhcp_options_string(<<>>, o)
  IN IF b.ok
     THEN [set_opt |-> TRUE, opt |-> b.buf,
           msgs |-> IF ioctl_ok THEN {}
                    ELSE msg(M_FATAL, <<"TAP_IOCTL_CONFIG_DHCP_SET_OPT",
                                        "driver rejected the call">>),
           fatal |-> ~ioctl_ok]
     ELSE [set_opt |-> FALSE, opt |-> <<>>,
           msgs |-> msg(M_WARN, <<"dhcp_options",
                                  "DHCP option string not set due to error">>),
           fatal |-> FALSE]

\* a string of n bytes
Bytes(n) == [i \in 1..n |-> 97 + (i % 26)]

\* lengths of --dhcp-option DOMAIN strings: empty, short, the longest that
\* fits the buffer, one that leaves room for six bytes, and too long
DomainLens == {0, 3, 246, 254, 255, 300}

DnsLists ==
  {<<>>, <<IP(8, 8, 8, 8)>>, <<IP(8, 8, 8, 8), IP(8, 8, 4, 4)>>,
   <<IP(192, 168, 50, 1), IP(10, 0, 0, 1), IP(8, 8, 8, 8), IP(8, 8, 4, 4)>>}

DhcpOptions ==
  [domain : {NoStr} \cup {Str(Bytes(n)) : n \in DomainLens},
   netbios_scope : {NoStr, Str(Bytes(2))},
   netbios_node_type : {0, 2, 8},
   dns : DnsLists,
   wins : {<<>>, <<IP(10, 0, 0, 2)>>},
   ntp : {<<>>, <<IP(10, 0, 0, 3)>>},
   nbdd : {<<>>, <<IP(10, 0, 0, 4)>>},
   disable_nbt : BOOLEAN]

BuildDhcpCalls == {Call("build_dhcp_options_string", o) : o \in DhcpOptions}

OpenTunDhcpCalls ==
  {Call("open_tun_dhcp_options", [o |-> o, ioctl_ok |-> ioctl_ok]) :
     o \in DhcpOptions, ioctl_ok \in BOOLEAN}

\* build_dhcp_options_string (&buf, &tt->options) on an empty buffer
BuildDhcpOptionsString ==
  /\ fn.op = "build_dhcp_options_string"
  /\ Return(build_dhcp_options_string(<<>>, fn.args))

\* open_tun, WIN32: the DHCP options of a device in DHCP masquerade mode
OpenTunDhcpOptions ==
  /\ fn.op = "open_tun_dhcp_options"
  /\ Return(open_tun_dhcp_options(fn.args.o, fn.args.ioctl_ok))

(***************************************************************************)
(* Probing for a device: the dynamic allocation of open_tun_generic and    *)
(* the adapter loop of the WIN32 open_tun.                                 *)
(***************************************************************************)
\* the longest list of TAP-Win32 adapters in the registry
MaxAdapters == 2

\* GUIDs of TAP-Win32 adapters
Guids == {"{A}", "{B}", "{C}"}

\* get_tap_reg: the adapters of the registry, in the order of enumeration
TapRegs ==
  {r \in UNION {[1..n -> Guids] : n \in 0..MaxAdapters} :
     \A i, j \in 1..Len(r) : i # j => r[i] # r[j]}

\* get_unspecified_device_guid (device_number, ..., tap_reg, ...): the GUID
\* of the adapter device_number steps down the list, NULL past its end
get_unspecified_device_guid(device_number, tap_reg) ==
  IF device_number >= Len(tap_reg) THEN NULL
  ELSE <<tap_reg[device_number + 1]>>

RECURSIVE ProbeAdapters(_, _, _)
\* open_tun, WIN32, no --dev-node: the loop while (true) from device_number;
\* free are the adapters CreateFile can open, tried the adapters given to
\* CreateFile, in the order of the calls
ProbeAdapters(device_number, tap_reg, free) ==
  LET device_guid == get_unspecified_device_guid(device_number, tap_reg)
  IN IF device_guid = NULL
     THEN [opened |-> FALSE, guid |-> NULL, tried |-> <<>>, fatal |-> TRUE]
     ELSE IF device_guid[1] \in free
     THEN [opened |-> TRUE, guid |-> device_guid, tried |-> device_guid,
           fatal |-> FALSE]
     ELSE [ProbeAdapters(device_number + 1, tap_reg, free)
             EXCEPT !.tried = device_guid \o @]

\* open_tun, WIN32, no --dev-node: at_least_one_tap_win32 and the loop
open_tun_adapters(tap_reg, free) ==
  IF tap_reg = <<>>
  THEN [opened |-> FALSE, guid |-> NULL, tried |-> <<>>, fatal |-> TRUE]
  ELSE ProbeAdapters(0, tap_reg, free)

\* the descriptors the process has open when it calls open_tun: the three
\* standard ones, or none when it was started with them closed
StartFds == {{0, 1, 2}, {1, 2}, {}}

OpenTunGenericCalls ==
  {Call("open_tun_generic", [dev |-> dev, fds |-> fds, avail |-> avail]) :
     dev \in {S_tun, S_tap}, fds \in StartFds,
     avail \in SUBSET (0..(MaxUnits - 1))}

OpenTunAdaptersCalls ==
  {Call("open_tun_adapters", [tap_reg |-> r, free |-> free]) :
     r \in TapRegs, free \in SUBSET Guids}

\* open_tun_generic (dev, dev_type, NULL, ipv6, false, true, tt) for a name
\* without a unit number
OpenTunGenericFn ==
  /\ fn.op = "open_tun_generic"
  /\ LET t == [clear_tuntap EXCEPT !.type = DEV_TYPE_TUN]
         o == [os EXCEPT !.fds = fn.args.fds]
         r == open_tun_generic(t, o, fn.args.dev, NULL, TRUE, fn.args.avail,
                               TRUE)
     IN Return([tt |-> r.tt, fds |-> r.os.fds, fatal |-> r.fatal,
                tried |-> ProbeUnits(0, fn.args.fds, fn.args.avail).tried])

\* open_tun, WIN32, with dev_node == NULL
OpenTunAdaptersFn ==
  /\ fn.op = "open_tun_adapters"
  /\ Return(open_tun_adapters(fn.args.tap_reg, fn.args.free))

(***************************************************************************)
(* netsh_ifconfig and netsh_ifconfig_options: the netsh commands a call    *)
(* issues, in order.  fail_at is the position of the command whose every   *)
(* try fails, so that netsh_command ends the process (0: none fails).      *)
(***************************************************************************)
NI_TEST_FIRST == "NI_TEST_FIRST"
NI_IP_NETMASK == "NI_IP_NETMASK"
NI_OPTIONS == "NI_OPTIONS"

\* in_addr_t a2[8] of ip_addr_one_to_one, in_addr_t aa[8] of ip_addr_member_of
IpAddrArraySize == 8

\* a const IP_ADDR_STRING *: NULL, or the addresses of the list
NoAddrString == [null |-> TRUE, list |-> <<>>]
AddrString(list) == [null |-> FALSE, list |-> list]

\* a const IP_ADAPTER_INFO *: NULL, or the first address and netmask of the
\* adapter, HaveWins and the primary and secondary WINS servers
NoAdapterInfo ==
  [null |-> TRUE, ip |-> ADDR0, netmask |-> ADDR0, HaveWins |-> FALSE,
   wins |-> <<>>]
AdapterInfo(ip, netmask, wins) ==
  [null |-> FALSE, ip |-> ip, netmask |-> netmask, HaveWins |-> wins # <<>>,
   wins |-> wins]

\* ip_addr_string_to_array (dest, &dest_len, src) with *dest_len = 8
ip_addr_string_to_array(src) ==
  IF src.null THEN <<>>
  ELSE IF Len(src.list) > IpAddrArraySize
  THEN SubSeq(src.list, 1, IpAddrArraySize)
  ELSE src.list

\* ip_addr_one_to_one (a1, a1len, ias)
ip_addr_one_to_one(a1, ias) ==
  LET a2 == ip_addr_string_to_array(ias)
  IN /\ Len(a1) = Len(a2)
     /\ \A i \in 1..Len(a1) : a1[i] = a2[i]

\* ip_addr_member_of (addr, ias)
ip_addr_member_of(addr, ias) ==
  LET aa == ip_addr_string_to_array(ias)
  IN \E i \in 1..Len(aa) : addr = aa[i]

\* test_adapter_ip_netmask (ai, ip, netmask)
test_adapter_ip_netmask(ai, ip, netmask) ==
  IF ~ai.null THEN ai.ip = ip /\ ai.netmask = netmask ELSE FALSE

\* a netsh command line: the words that tell the commands apart, the
\* address and netmask in it, and the n given to netsh_command
NetshCmd(words, addr, mask, n) ==
  [cmd |-> words, addr |-> addr, mask |-> mask, n |-> n]

\* the commands issued so far and whether netsh_command ended the process
NoCmds == [cmds |-> <<>>, fatal |-> FALSE]

\* netsh_command (&argv, n) as the next command of the call
netsh_issue(r, c, fail_at) ==
  IF r.fatal THEN r
  ELSE [cmds |-> Append(r.cmds, c), fatal |-> Len(r.cmds) + 1 = fail_at]

\* netsh_ifconfig_options: if (test_first) { if (!ip_addr_one_to_one ...) }
netsh_delete_first(addr_list, current, test_first) ==
  IF test_first THEN ~ip_addr_one_to_one(addr_list, current) ELSE TRUE

RECURSIVE netsh_options_loop(_, _, _, _, _, _, _, _, _)
\* netsh_ifconfig_options: for (i = 0; i < addr_len; ++i), i counted from 1
netsh_options_loop(r, type, addr_list, i, count, current, delete_first, test_first, fail_at) ==
  IF i > Len(addr_list) THEN r
  ELSE IF delete_first \/ ~test_first
            \/ ~ip_addr_member_of(addr_list[i], current)
  THEN netsh_options_loop(
         netsh_issue(r, NetshCmd(<<IF count # 0 THEN "add" ELSE "set", type,
                                   "static">>,
                                 addr_list[i], ADDR0, NetshSetAddTries),
                     fail_at),
         type, addr_list, i + 1, count + 1, current, delete_first, test_first,
         fail_at)
  ELSE netsh_options_loop(r, type, addr_list, i + 1, count, current,
                          delete_first, test_first, fail_at)

\* netsh_ifconfig_options that sets the servers without deleting first
netsh_ifconfig_options_no_delete(r, type, addr_list, current, test_first, fail_at) ==
  netsh_options_loop(r, type, addr_list, 1, 0, current,
                     netsh_delete_first(addr_list, current, test_first),
                     test_first, fail_at)

\* netsh_ifconfig_options (type, addr_list, addr_len, current, flex_name,
\* test_first)
netsh_ifconfig_options(r, type, addr_list, current, test_first, fail_at) ==
  LET delete_first == netsh_delete_first(addr_list, current, test_first)
      r1 == IF delete_first
            THEN netsh_issue(r, NetshCmd(<<"delete", type, "all">>, ADDR0,
                                         ADDR0, NetshDeleteTries), fail_at)
            ELSE r
  IN netsh_options_loop(r1, type, addr_list, 1, 0, current, delete_first,
                        test_first, fail_at)

\* netsh_ifconfig that tests the adapter whatever the flags are
netsh_ifconfig_always_test(to, ip, netmask, flags, live_ai, live_pai, fail_at) ==
  LET ai == live_ai
      pai == live_pai
      r1 == IF NI_IP_NETMASK \in flags
                 /\ ~test_adapter_ip_netmask(ai, ip, netmask)
            THEN netsh_issue(NoCmds,
                             NetshCmd(<<"set", "address", "static">>, ip,
                                      netmask, NetshIfconfigTries), fail_at)
            ELSE NoCmds
      r2 == netsh_ifconfig_options(r1, "dns", to.dns, pai, TRUE, fail_at)
      wins == IF ai.null THEN NoAddrString
              ELSE IF ai.HaveWins THEN AddrString(ai.wins)
              ELSE AddrString(<<>>)
      r3 == netsh_ifconfig_options(r2, "wins", to.wins, wins, TRUE, fail_at)
  IN [fetched |-> TRUE, cmds |-> r3.cmds, fatal |-> r3.fatal]

\* netsh_ifconfig (to, flex_name, ip, netmask, flags); live_ai and live_pai
\* are what get_adapter and get_per_adapter_info would return
netsh_ifconfig(to, ip, netmask, flags, live_ai, live_pai, fail_at) ==
  LET test_first == NI_TEST_FIRST \in flags
      ai == IF test_first THEN live_ai ELSE NoAdapterInfo
      pai == IF test_first THEN live_pai ELSE NoAddrString
      r1 == IF NI_IP_NETMASK \in flags
                 /\ ~test_adapter_ip_netmask(ai, ip, netmask)
            THEN netsh_issue(NoCmds,
                             NetshCmd(<<"set", "address", "static">>, ip,
                                      netmask, NetshIfconfigTries), fail_at)
            ELSE NoCmds
      wins == IF ai.null THEN NoAddrString
              ELSE IF ai.HaveWins THEN AddrString(ai.wins)
              ELSE AddrString(<<>>)
      r2 == IF NI_OPTIONS \in flags
            THEN netsh_ifconfig_options(r1, "dns", to.dns, pai, test_first,
                                        fail_at)
            ELSE r1
      r3 == IF NI_OPTIONS \in flags
            THEN netsh_ifconfig_options(r2, "wins", to.wins, wins, test_first,
                                        fail_at)
            ELSE r2
  IN [fetched |-> test_first, cmds |-> r3.cmds, fatal |-> r3.fatal]

\* the flags of the three calls of netsh_ifconfig: do_ifconfig with
\* --ip-win32 netsh, open_tun and tun_standby with --ip-win32 adaptive
NetshIfconfigFlags(caller) ==
  IF caller = "do_ifconfig" THEN {NI_IP_NETMASK, NI_OPTIONS}
  ELSE {NI_TEST_FIRST, NI_IP_NETMASK, NI_OPTIONS}

NetshCallers == {"do_ifconfig", "open_tun", "tun_standby"}

\* --dhcp-option DNS and WINS lists
ServerLists ==
  {<<>>, <<IP(8, 8, 8, 8)>>, <<IP(8, 8, 8, 8), IP(8, 8, 4, 4)>>}

\* the adapter as the IP helper API reports it
LiveAdapterInfos ==
  {NoAdapterInfo}
    \cup {AdapterInfo(ip, IP(255, 255, 255, 0), wins) :
            ip \in {IP(10, 3, 0, 1), IP(10, 3, 0, 9)},
            wins \in {<<>>, <<IP(10, 0, 0, 2)>>}}

LivePerAdapterInfos ==
  {NoAddrString}
    \cup {AddrString(l) : l \in ServerLists \cup
                                  {<<IP(8, 8, 4, 4), IP(8, 8, 8, 8)>>}}

NetshIfconfigCalls ==
  {Call("netsh_ifconfig",
        [caller |-> caller, to |-> [dns |-> dns, wins |-> wins],
         ip |-> IP(10, 3, 0, 1), netmask |-> IP(255, 255, 255, 0),
         ai |-> ai, pai |-> pai, fail_at |-> fail_at]) :
     caller \in NetshCallers, dns \in ServerLists,
     wins \in {<<>>, <<IP(10, 0, 0, 2)>>},
     ai \in LiveAdapterInfos, pai \in LivePerAdapterInfos,
     fail_at \in 0..2}

\* netsh_ifconfig as do_ifconfig, open_tun or tun_standby calls it
NetshIfconfigFn ==
  /\ fn.op = "netsh_ifconfig"
  /\ Return(netsh_ifconfig(fn.args.to, fn.args.ip, fn.args.netmask,
                           NetshIfconfigFlags(fn.args.caller), fn.args.ai,
                           fn.args.pai, fn.args.fail_at))

(***************************************************************************)
(* open_tun, WIN32: the TCP/IP configuration of the adapter once it is     *)
(* open.  The result holds the netsh commands, the DeviceIoControl calls   *)
(* and the DHCP release and renew actions of the call, each in order.      *)
(***************************************************************************)
DHCP_STATUS_UNDEF == "DHCP_STATUS_UNDEF"
DHCP_STATUS_ENABLED == "DHCP_STATUS_ENABLED"
DHCP_STATUS_DISABLED == "DHCP_STATUS_DISABLED"

\* an int as a uint32_t (two's complement), for |k| < 2^24
ToU32(k) ==
  IF k >= 0
  THEN <<0, (k \div 65536) % 256, (k \div 256) % 256, k % 256>>
  ELSE Not32(<<0, ((-k - 1) \div 65536) % 256, ((-k - 1) \div 256) % 256,
               (-k - 1) % 256>>)

\* x + y on uint32_t: the carry out of the top byte is lost
Add32(x, y) ==
  LET s4 == x[4] + y[4]
      s3 == x[3] + y[3] + s4 \div 256
      s2 == x[2] + y[2] + s3 \div 256
      s1 == x[1] + y[1] + s2 \div 256
  IN <<s1 % 256, s2 % 256, s3 % 256, s4 % 256>>

\* a DeviceIoControl call: the code, the addresses of ep[] before htonl,
\* and the lease time where the call has one
Ioctl(code, ep, lease) == [code |-> code, ep |-> ep, lease |-> lease]

\* a DHCP release or renew: what is done and by whom (open_tun itself, or
\* the process fork_dhcp_action starts)
DhcpAction(what, by) == [what |-> what, by |-> by]

\* the DHCP server address for a Tun device that has no test for a clash
dhcp_masq_server_tun(t, offset) ==
  IF t.topology = TOP_SUBNET
  THEN LET netmask_inv == Not32(t.remote_netmask)
       IN [fatal |-> FALSE,
           dsa |-> IF netmask_inv # ADDR0
                   THEN Add32(Or32(t.local, netmask_inv), ToU32(-1))
                   ELSE ADDR0]
  ELSE [fatal |-> FALSE, dsa |-> t.remote_netmask]

\* the DHCP server address for a Tap device: dsa and the two fatal tests
dhcp_masq_server_tap(t, offset) ==
  LET dsa == IF offset < 0
             THEN Add32(Or32(t.local, Not32(t.adapter_netmask)), ToU32(offset))
             ELSE Add32(And32(t.local, t.adapter_netmask), ToU32(offset))
  IN [fatal |-> \/ dsa = t.local
                \/ And32(t.local, t.adapter_netmask)
                     # And32(dsa, t.adapter_netmask),
      dsa |-> dsa]

\* open_tun, if (dhcp_masq): "At what IP address should the DHCP server
\* masquerade at?"
dhcp_masq_server(t, offset) ==
  IF t.type = DEV_TYPE_TUN THEN dhcp_masq_server_tun(t, offset)
  ELSE dhcp_masq_server_tap(t, offset)

\* fork_dhcp_action (tt)
fork_dhcp_action(to) ==
  (IF to.dhcp_pre_release THEN <<DhcpAction("release", "forked")>> ELSE <<>>)
    \o (IF to.dhcp_renew THEN <<DhcpAction("renew", "forked")>> ELSE <<>>)

\* open_tun, if (dhcp_masq_post): dhcp_release (tt) and dhcp_renew (tt)
dhcp_masq_post_actions(to) ==
  (IF to.dhcp_pre_release THEN <<DhcpAction("release", "open_tun")>> ELSE <<>>)
    \o (IF to.dhcp_renew THEN <<DhcpAction("renew", "open_tun")>> ELSE <<>>)

\* adaptive mode that uses netsh only for an adapter known to have DHCP
\* disabled
open_tun_adaptive_netsh_if_disabled(status) == status = DHCP_STATUS_DISABLED

\* open_tun, IPW32_SET_ADAPTIVE: "If adapter is set to non-DHCP, use netsh
\* right away", else dhcp_masq = true
open_tun_adaptive_netsh(status) == status # DHCP_STATUS_ENABLED

\* open_tun, WIN32, from "Preliminaries for setting TAP-Win32 adapter
\* TCP/IP properties" to the end, every DeviceIoControl and netsh command
\* succeeding; status: what dhcp_status reports, ai and pai: what
\* get_adapter and get_per_adapter_info return
open_tun_win32_config(t, to, status, ai, pai) ==
  LET ipw == t.options.ip_win32_type
      setup == t.did_ifconfig_setup
      enable_dhcp == /\ setup /\ ipw = IPW32_SET_DHCP_MASQ
                     /\ status = DHCP_STATUS_DISABLED
      adaptive_netsh == /\ setup /\ ipw = IPW32_SET_ADAPTIVE
                        /\ open_tun_adaptive_netsh(status)
      dhcp_masq == /\ setup
                   /\ \/ ipw = IPW32_SET_DHCP_MASQ
                      \/ /\ ipw = IPW32_SET_ADAPTIVE
                         /\ ~open_tun_adaptive_netsh(status)
      dhcp_masq_post == setup /\ ipw = IPW32_SET_DHCP_MASQ
      netsh == IF enable_dhcp
               THEN <<NetshCmd(<<"set", "address", "dhcp">>, ADDR0, ADDR0,
                               NetshEnableDhcpTries)>>
               ELSE IF adaptive_netsh
               THEN netsh_ifconfig(to, t.local, t.adapter_netmask,
                                   NetshIfconfigFlags("open_tun"), ai, pai,
                                   0).cmds
               ELSE <<>>
      tun_fatal == t.type = DEV_TYPE_TUN /\ ~setup
      tun_ioctl == IF t.type # DEV_TYPE_TUN THEN <<>>
                   ELSE IF t.topology = TOP_SUBNET
                   THEN <<Ioctl("TAP_IOCTL_CONFIG_TUN",
                                <<t.local, And32(t.local, t.remote_netmask),
                                  t.remote_netmask>>, 0)>>
                   ELSE <<Ioctl("TAP_IOCTL_CONFIG_POINT_TO_POINT",
                                <<t.local, t.remote_netmask>>, 0)>>
      srv == dhcp_masq_server(t, to.dhcp_masq_offset)
      masq_ioctl == IF ~dhcp_masq THEN <<>>
                    ELSE <<Ioctl("TAP_IOCTL_CONFIG_DHCP_MASQ",
                                 <<t.local, t.adapter_netmask, srv.dsa>>,
                                 to.dhcp_lease_time)>>
                           \o (IF to.dhcp_options
                                    /\ build_dhcp_options_string(<<>>, to).ok
                               THEN <<Ioctl("TAP_IOCTL_CONFIG_DHCP_SET_OPT",
                                            <<>>, 0)>>
                               ELSE <<>>)
      media == <<Ioctl("TAP_IOCTL_SET_MEDIA_STATUS", <<>>, 0)>>
      ipapi == IF setup /\ ipw = IPW32_SET_IPAPI
               THEN <<Ioctl("AddIPAddress", <<t.local, t.adapter_netmask>>, 0)>>
               ELSE <<>>
  IN IF tun_fatal
     THEN [netsh |-> netsh, ioctls |-> <<>>, dhcp |-> <<>>,
           dhcp_masq |-> dhcp_masq, fatal |-> TRUE]
     ELSE IF dhcp_masq /\ srv.fatal
     THEN [netsh |-> netsh, ioctls |-> tun_ioctl, dhcp |-> <<>>,
           dhcp_masq |-> dhcp_masq, fatal |-> TRUE]
     ELSE [netsh |-> netsh,
           ioctls |-> tun_ioctl \o masq_ioctl \o media \o ipapi,
           dhcp |-> IF dhcp_masq_post THEN dhcp_masq_post_actions(to)
                    ELSE fork_dhcp_action(to),
           dhcp_masq |-> dhcp_masq,
           fatal |-> FALSE]

\* do_ifconfig, WIN32: the netsh commands of the call
do_ifconfig_win32_netsh(t, to) ==
  IF t.did_ifconfig_setup /\ t.options.ip_win32_type = IPW32_SET_NETSH
  THEN netsh_ifconfig(to, t.local, t.adapter_netmask,
                      NetshIfconfigFlags("do_ifconfig"), NoAdapterInfo,
                      NoAddrString, 0).cmds
  ELSE <<>>

\* --dev, --topology and --ifconfig of a TAP-Win32 device
Win32Devices ==
  {[type |-> DEV_TYPE_TUN, topology |-> TOP_NET30,
    local |-> IP(10, 8, 0, 6), remote_netmask |-> IP(10, 8, 0, 5)],
   [type |-> DEV_TYPE_TUN, topology |-> TOP_P2P,
    local |-> IP(10, 8, 0, 2), remote_netmask |-> IP(10, 8, 0, 1)],
   [type |-> DEV_TYPE_TUN, topology |-> TOP_SUBNET,
    local |-> IP(10, 8, 0, 4), remote_netmask |-> IP(255, 255, 255, 0)],
   [type |-> DEV_TYPE_TUN, topology |-> TOP_SUBNET,
    local |-> IP(10, 8, 0, 254), remote_netmask |-> IP(255, 255, 255, 0)],
   [type |-> DEV_TYPE_TUN, topology |-> TOP_SUBNET,
    local |-> IP(10, 8, 0, 1), remote_netmask |-> IP(255, 255, 255, 255)],
   [type |-> DEV_TYPE_TAP, topology |-> TOP_NET30,
    local |-> IP(10, 3, 0, 1), remote_netmask |-> IP(255, 255, 255, 0)],
   [type |-> DEV_TYPE_TAP, topology |-> TOP_SUBNET,
    local |-> IP(10, 3, 0, 254), remote_netmask |-> IP(255, 255, 255, 0)],
   [type |-> DEV_TYPE_TAP, topology |-> TOP_SUBNET,
    local |-> IP(255, 255, 255, 9), remote_netmask |-> IP(255, 255, 255, 0)]}

\* --ip-win32 dynamic [offset]
DhcpMasqOffsets(type) ==
  IF type = DEV_TYPE_TAP THEN {0, 1, -1, -2, 300, -300} ELSE {0, -1}

\* the options of the call besides the addresses
Win32Options ==
  {[dns |-> dns, wins |-> <<>>, domain |-> NoStr, netbios_scope |-> NoStr,
    netbios_node_type |-> 0, ntp |-> <<>>, nbdd |-> <<>>,
    disable_nbt |-> FALSE, dhcp_options |-> dns # <<>>,
    dhcp_masq_offset |-> 0, dhcp_lease_time |-> 31536000,
    dhcp_pre_release |-> pre, dhcp_renew |-> renew] :
     dns \in {<<>>, <<IP(8, 8, 8, 8)>>}, pre \in BOOLEAN, renew \in BOOLEAN}

OpenTunConfigCalls ==
  {c \in {Call("open_tun_win32_config",
               [dev |-> dev, ipw |-> ipw,
                to |-> [to EXCEPT !.dhcp_masq_offset = offset],
                status |-> status, ai |-> ai, pai |-> pai]) :
            dev \in Win32Devices, ipw \in IpWin32Types, to \in Win32Options,
            offset \in {0, 1, -1, -2, 300, -300},
            status \in {DHCP_STATUS_UNDEF, DHCP_STATUS_ENABLED,
                        DHCP_STATUS_DISABLED},
            ai \in {NoAdapterInfo,
                    AdapterInfo(IP(10, 3, 0, 1), IP(255, 255, 255, 0), <<>>)},
            pai \in {NoAddrString, AddrString(<<IP(8, 8, 8, 8)>>)}} :
     c.args.to.dhcp_masq_offset \in DhcpMasqOffsets(c.args.dev.type)}

\* do_ifconfig and then open_tun on a device init_tun has set up; the netsh
\* commands of do_ifconfig are ifconfig, those of open_tun are netsh
do_ifconfig_open_tun(a) ==
  LET t0 == [clear_tuntap EXCEPT !.type = a.dev.type,
                                 !.topology = a.dev.topology,
                                 !.local = a.dev.local,
                                 !.remote_netmask = a.dev.remote_netmask,
                                 !.did_ifconfig_setup = TRUE,
                                 !.options.ip_win32_type = a.ipw]
      d == do_ifconfig("win32", t0, os, <<"T", "A", "P">>, TRUE, TRUE, TRUE,
                       TRUE)
      r == open_tun_win32_config(d.tt, a.to, a.status, a.ai, a.pai)
  IN IF d.fatal
     THEN [tt |-> d.tt, ifconfig |-> <<>>, netsh |-> <<>>, ioctls |-> <<>>,
           dhcp |-> <<>>, dhcp_masq |-> FALSE, fatal |-> TRUE]
     ELSE [tt |-> d.tt, ifconfig |-> do_ifconfig_win32_netsh(d.tt, a.to),
           netsh |-> r.netsh, ioctls |-> r.ioctls, dhcp |-> r.dhcp,
           dhcp_masq |-> r.dhcp_masq, fatal |-> r.fatal]

OpenTunConfigFn ==
  /\ fn.op = "open_tun_win32_config"
  /\ Return(do_ifconfig_open_tun(fn.args))
(***************************************************************************)
(* netsh_get_id and guess_tuntap_dev.  The registry is the list of TAP     *)
(* adapters (tap_reg) and the control-panel name of each GUID, NULL where  *)
(* the network connections panel has none (panel_reg).                     *)
(***************************************************************************)
S_LAN == <<"L", "A", "N">>

\* guid_to_name (guid, panel_reg)
guid_to_name(guid, panel_reg) == panel_reg[guid]

\* is_tap_win32 (guid, tap_reg)
is_tap_win32(name, tap_reg) ==
  \E i \in 1..Len(tap_reg) : name = <<tap_reg[i]>>

\* what get_unspecified_device_guid and get_device_guid leave in
\* actual_name for the adapter guid
ActualNameOf(guid, panel_reg) ==
  IF guid_to_name(guid, panel_reg) # NULL THEN guid_to_name(guid, panel_reg)
  ELSE <<guid>>

\* get_device_guid (name, actual_name, ..., tap_reg, panel_reg, gc): the
\* GUID returned and actual_name
get_device_guid(name, tap_reg, panel_reg) ==
  IF tap_reg = <<>> THEN [guid |-> NULL, actual |-> <<>>]
  ELSE IF is_tap_win32(name, tap_reg)
  THEN [guid |-> name, actual |-> ActualNameOf(name[1], panel_reg)]
  ELSE IF \E i \in 1..Len(tap_reg) : panel_reg[tap_reg[i]] = name
  THEN [guid |-> <<CHOOSE g \in {tap_reg[i] : i \in 1..Len(tap_reg)} :
                     panel_reg[g] = name>>,
        actual |-> name]
  ELSE [guid |-> NULL, actual |-> <<>>]

\* netsh_get_id that takes the first adapter when there are several
netsh_get_id_first_adapter(dev_node, tap_reg, panel_reg) ==
  IF tap_reg = <<>> THEN [fatal |-> TRUE, id |-> S_NULL]
  ELSE [fatal |-> FALSE,
        id |-> IF dev_node # NULL
               THEN LET d == get_device_guid(dev_node, tap_reg, panel_reg)
                    IN IF d.guid = NULL THEN S_NULL
                       ELSE IF ~strcmp_eq(d.actual, S_NULL) THEN d.actual
                       ELSE d.guid
               ELSE ActualNameOf(tap_reg[1], panel_reg)]

\* netsh_get_id (dev_node, gc): fatal is at_least_one_tap_win32
netsh_get_id(dev_node, tap_reg, panel_reg) ==
  IF tap_reg = <<>> THEN [fatal |-> TRUE, id |-> S_NULL]
  ELSE LET d == IF dev_node # NULL
                THEN get_device_guid(dev_node, tap_reg, panel_reg)
                ELSE LET g == get_unspecified_device_guid(0, tap_reg)
                     IN [guid |-> IF get_unspecified_device_guid(1, tap_reg)
                                       # NULL
                                  THEN NULL ELSE g,
                         actual |-> ActualNameOf(g[1], panel_reg)]
       IN [fatal |-> FALSE,
           id |-> IF d.guid = NULL THEN S_NULL
                  ELSE IF ~strcmp_eq(d.actual, S_NULL) THEN d.actual
                  ELSE d.guid]

\* guess_tuntap_dev (dev, dev_type, dev_node, gc), WIN32
guess_tuntap_dev(dev, dev_type, dev_node, tap_reg, panel_reg) ==
  IF dev_type_enum(dev, dev_type) \in {DEV_TYPE_TUN, DEV_TYPE_TAP}
  THEN netsh_get_id(dev_node, tap_reg, panel_reg)
  ELSE [fatal |-> FALSE, id |-> dev]

\* the network connections panel: a name, the name "NULL", or no entry
PanelRegs ==
  [Guids -> {NULL, S_LAN}] \cup {[g \in Guids |-> S_NULL]}

GuessCalls ==
  {Call("guess_tuntap_dev",
        [dev |-> dev, dev_node |-> dev_node, tap_reg |-> r, panel_reg |-> p]) :
     dev \in {S_tun, S_tap, S_null},
     dev_node \in {NULL, <<"{A}">>, S_LAN},
     r \in TapRegs, p \in PanelRegs}

\* guess_tuntap_dev, and do_ifconfig with --ip-win32 netsh given its answer
GuessTuntapDevFn ==
  /\ fn.op = "guess_tuntap_dev"
  /\ LET a == fn.args
         g == guess_tuntap_dev(a.dev, NULL, a.dev_node, a.tap_reg, a.panel_reg)
         t == [clear_tuntap EXCEPT !.type = DEV_TYPE_TAP,
                                   !.topology = TOP_NET30,
                                   !.local = IP(10, 3, 0, 1),
                                   !.remote_netmask = IP(255, 255, 255, 0),
                                   !.did_ifconfig_setup = TRUE,
                                   !.options.ip_win32_type = IPW32_SET_NETSH]
     IN Return([fatal |-> g.fatal, id |-> g.id,
                do_ifconfig |-> do_ifconfig("win32", t, os, g.id, TRUE, TRUE,
                                            TRUE, TRUE)])

(***************************************************************************)
(* open_tun, WIN32: the driver version check                               *)
(***************************************************************************)
\* the minimum driver version the build was configured with
TAP_WIN32_MIN_MAJOR == 9
TAP_WIN32_MIN_MINOR == 1

\* open_tun, "get driver version info": info is CLEARed, filled by
\* TAP_IOCTL_GET_VERSION when the call succeeds, and then tested; the
\* result is whether msg (M_FATAL) ends the process
open_tun_version_check(query_ok, major, minor) ==
  LET info == IF query_ok THEN <<major, minor>> ELSE <<0, 0>>
  IN [info |-> info,
      fatal |-> ~(info[1] = TAP_WIN32_MIN_MAJOR
                    /\ info[2] >= TAP_WIN32_MIN_MINOR)]

VersionCalls ==
  {Call("open_tun_version_check",
        [query_ok |-> q, major |-> major, minor |-> minor]) :
     q \in BOOLEAN,
     major \in {0, TAP_WIN32_MIN_MAJOR - 1, TAP_WIN32_MIN_MAJOR,
                TAP_WIN32_MIN_MAJOR + 1},
     minor \in {0, TAP_WIN32_MIN_MINOR, TAP_WIN32_MIN_MINOR + 1}}

OpenTunVersionCheck ==
  /\ fn.op = "open_tun_version_check"
  /\ Return(open_tun_version_check(fn.args.query_ok, fn.args.major,
                                   fn.args.minor))

(***************************************************************************)
(* read_tun and write_tun on the Unix builds: the value returned for the   *)
(* result r of readv, writev, read or write.                               *)
(***************************************************************************)
\* sizeof (u_int32_t), the address family put before a packet, and
\* sizeof (struct tun_pi), the flags and protocol Linux puts before it
SizeofHeader == 4

\* openbsd_modify_read_write_return, freebsd_modify_read_write_return,
\* dragonfly_modify_read_write_return
modify_read_write_return(len) ==
  IF len > 0
  THEN IF len > SizeofHeader THEN len - SizeofHeader ELSE 0
  ELSE len

\* TARGET_LINUX with LINUX_IPV6: return (ret - sizeof (pi)); the difference
\* is taken in size_t and converted to int, which gives ret - 4
linux_read_write_return(ret) == ret - SizeofHeader

\* read_tun and write_tun: t is the device, r the result of the system call
read_write_tun(b, t, r) ==
  IF b \in {"openbsd", "freebsd"}
  THEN IF t.type = DEV_TYPE_TUN THEN modify_read_write_return(r) ELSE r
  ELSE IF IsLinux(b)
  THEN IF t.ipv6 THEN linux_read_write_return(r) ELSE r
  ELSE r

\* results of the system call: -1 for an error, else the bytes transferred
RawResults == -1..9

ReadWriteCalls ==
  {Call(op, [build |-> b, type |-> type, ipv6 |-> ipv6, r |-> r]) :
     op \in {"read_tun", "write_tun"},
     b \in Builds \ {"win32", "solaris"},
     type \in {DEV_TYPE_TUN, DEV_TYPE_TAP}, ipv6 \in BOOLEAN,
     r \in RawResults}

\* read_tun (tt, buf, len) and write_tun (tt, buf, len)
ReadWriteTun ==
  /\ fn.op \in {"read_tun", "write_tun"}
  /\ Return([len |-> read_write_tun(fn.args.build,
                                    [clear_tuntap EXCEPT
                                       !.type = fn.args.type,
                                       !.ipv6 = fn.args.ipv6],
                                    fn.args.r)])

\* calls of netsh_ifconfig_options: the requested servers, the servers the
\* adapter has, and the command of the call that fails (0 for none)
NetshOptionsCalls ==
  {Call("netsh_ifconfig_options",
        [type |-> type, addr_list |-> addr_list, current |-> current,
         test_first |-> test_first, fail_at |-> fail_at]) :
     type \in OptionTypes,
     addr_list \in ServerLists
                     \cup {<<IP(8, 8, 8, 8), IP(8, 8, 4, 4), IP(1, 1, 1, 1)>>},
     current \in LivePerAdapterInfos
                   \cup {AddrString(<<IP(8, 8, 4, 4)>>),
                         AddrString(<<IP(8, 8, 8, 8), IP(8, 8, 4, 4),
                                      IP(1, 1, 1, 1)>>)},
     test_first \in BOOLEAN, fail_at \in 0..4}

\* netsh_ifconfig_options (type, addr_list, addr_len, current, flex_name,
\* test_first)
NetshIfconfigOptionsFn ==
  /\ fn.op = "netsh_ifconfig_options"
  /\ Return(netsh_ifconfig_options(NoCmds, fn.args.type, fn.args.addr_list,
                                   fn.args.current, fn.args.test_first,
                                   fn.args.fail_at))

(***************************************************************************)
(* tun_standby_init and tun_standby, which the caller calls again and      *)
(* again while it waits for the TAP-Win32 adapter to come up.              *)
(***************************************************************************)
\* the iteration at which adaptive mode tries netsh (tun.h)
IPW32_SET_ADAPTIVE_TRY_NETSH == 20

\* tun_standby calls of one cycle that the model follows
MaxStandby == 45

\* tun_standby_init (tt)
tun_standby_init(t) == [t EXCEPT !.standby_iter = 0]

\* tun_standby that tries netsh at every iteration from the
\* IPW32_SET_ADAPTIVE_TRY_NETSH-th on
tun_standby_netsh_from(t, to, ai, pai, fail_at) ==
  LET iter == t.standby_iter + 1
      t1 == [t EXCEPT !.standby_iter = iter]
      none == [fetched |-> FALSE, cmds |-> <<>>, fatal |-> FALSE]
  IN IF t.options.ip_win32_type = IPW32_SET_ADAPTIVE
     THEN IF iter >= IPW32_SET_ADAPTIVE_TRY_NETSH
          THEN LET r == netsh_ifconfig(to, t.local, t.adapter_netmask,
                                       NetshIfconfigFlags("tun_standby"),
                                       ai, pai, fail_at)
               IN [tt |-> t1, ran |-> TRUE, netsh |-> r, ret |-> TRUE,
                   fatal |-> r.fatal]
          ELSE [tt |-> t1, ran |-> FALSE, netsh |-> none, ret |-> TRUE,
                fatal |-> FALSE]
     ELSE [tt |-> t1, ran |-> FALSE, netsh |-> none, ret |-> TRUE,
           fatal |-> FALSE]

\* tun_standby (tt): to are tt->options' servers, ai and pai what
\* get_adapter_info and get_per_adapter_info return; fatal when a netsh
\* command of netsh_ifconfig ends the process
tun_standby(t, to, ai, pai, fail_at) ==
  LET iter == t.standby_iter + 1
      t1 == [t EXCEPT !.standby_iter = iter]
      none == [fetched |-> FALSE, cmds |-> <<>>, fatal |-> FALSE]
  IN IF t.options.ip_win32_type = IPW32_SET_ADAPTIVE
     THEN IF iter = IPW32_SET_ADAPTIVE_TRY_NETSH
          THEN LET r == netsh_ifconfig(to, t.local, t.adapter_netmask,
                                       NetshIfconfigFlags("tun_standby"),
                                       ai, pai, fail_at)
               IN [tt |-> t1, ran |-> TRUE, netsh |-> r, ret |-> TRUE,
                   fatal |-> r.fatal]
          ELSE IF iter >= IPW32_SET_ADAPTIVE_TRY_NETSH * 2
          THEN [tt |-> t1, ran |-> FALSE, netsh |-> none, ret |-> FALSE,
                fatal |-> FALSE]
          ELSE [tt |-> t1, ran |-> FALSE, netsh |-> none, ret |-> TRUE,
                fatal |-> FALSE]
     ELSE [tt |-> t1, ran |-> FALSE, netsh |-> none, ret |-> TRUE,
           fatal |-> FALSE]

\* fn in a standby cycle: the last call, k the calls of tun_standby since
\* tun_standby_init, runs the calls among them that ran netsh_ifconfig
StandbyLog(op, k, runs, ran, ret, netsh) ==
  [op |-> op, k |-> k, runs |-> runs, ran |-> ran, ret |-> ret,
   netsh |-> netsh]

StandbyStart ==
  StandbyLog("tun_standby_init", 0, 0, FALSE, TRUE,
             [fetched |-> FALSE, cmds |-> <<>>, fatal |-> FALSE])

\* the caller starts a cycle
TunStandbyInit ==
  /\ ~aborted /\ alive
  /\ fn.op = "tun_standby"
  /\ tt' = tun_standby_init(tt)
  /\ fn' = StandbyStart
  /\ UNCHANGED <<build, alive, opt, calls, aborted, os, rel, snap, iovars,
                 nvars, px>>

\* the next call of the cycle
TunStandby ==
  /\ ~aborted /\ alive
  /\ fn.k < MaxStandby
  /\ \E ai \in LiveAdapterInfos, pai \in LivePerAdapterInfos,
        fail_at \in 0..1 :
       LET r == tun_standby(tt, [dns |-> <<IP(8, 8, 8, 8)>>, wins |-> <<>>],
                            ai, pai, fail_at)
       IN /\ tt' = r.tt
          /\ aborted' = r.fatal
          /\ fn' = StandbyLog("tun_standby", fn.k + 1,
                              fn.runs + (IF r.ran THEN 1 ELSE 0), r.ran,
                              r.ret, r.netsh)
  /\ UNCHANGED <<build, alive, opt, calls, os, rel, snap, iovars, nvars, px>>


Init ==
  /\ build \in Builds
  /\ tt = clear_tuntap
  /\ alive = FALSE
  /\ opt = [dev |-> NULL, dev_type |-> NULL, dev_node |-> NULL]
  /\ calls = <<>>
  /\ aborted = FALSE
  /\ \E stdin_open \in BOOLEAN, persist \in BOOLEAN :
       /\ (IsWin(build) => persist)
       /\ os = [fds |-> IF stdin_open THEN {0} ELSE {}, names |-> 0,
                hand_open |-> FALSE, addr |-> {}, route |-> {},
                persist |-> persist]
  /\ rel = NoRelease
  /\ snap = [addr |-> {}, route |-> {}]
  /\ io = IdleIo
  /\ drv = IdleDrv
  /\ iolog = IdleLog
  /\ ns = IdleNs
  /\ px = IdlePx
  /\ fn = IdleFn

Next ==
  \/ InitTun
  \/ InitTunPost
  \/ OpenTun
  \/ DoIfconfig
  \/ CloseTun
  \/ CloseTunNull

Spec == Init /\ [][Next]_vars

(***************************************************************************)
(* The WIN32 build reading and writing a device: the object after init_tun *)
(* and init_tun_post of a Tap device without ifconfig parameters or of a   *)
(* Null device.                                                            *)
(***************************************************************************)
IoDevices == {<<S_foo, S_tap>>, <<S_null, NULL>>}

InitIo ==
  /\ build = "win32"
  /\ \E p \in IoDevices, dhcp_release \in BOOLEAN :
       /\ tt = init_tun_post(
                 init_tun(p[1], p[2], TOP_NET30, NULL, NULL, ADDR0, ADDR0,
                          FALSE, Env({}), FALSE, NoGateway).tt,
                 [ip_win32_type |-> IPW32_SET_ADAPTIVE,
                  dhcp_release |-> dhcp_release])
       /\ opt = [dev |-> p[1], dev_type |-> p[2], dev_node |-> NULL]
  /\ alive = TRUE
  /\ calls = <<"init_tun", "init_tun_post">>
  /\ aborted = FALSE
  /\ os = [fds |-> {}, names |-> 0, hand_open |-> FALSE, addr |-> {},
           route |-> {}, persist |-> TRUE]
  /\ rel = NoRelease
  /\ snap = [addr |-> {}, route |-> {}]
  /\ io = init_tun_post_io(IdleIo)
  /\ drv = IdleDrv
  /\ iolog = IdleLog
  /\ ns = IdleNs
  /\ px = IdlePx
  /\ fn = IdleFn

NextIo ==
  \/ OpenTun
  \/ TunReadQueue
  \/ TunWriteQueue
  \/ \E d \in Dirs : OsComplete(d)
  \/ \E d \in Dirs : TunFinalize(d)
  \/ CloseTun

SpecIo == InitIo /\ [][NextIo]_vars

\* the device stays open, the driver finishes what is pending and the
\* caller finalizes a direction whose event is signaled
NextIoFair ==
  \/ OpenTun
  \/ TunReadQueue
  \/ TunWriteQueue
  \/ \E d \in Dirs : OsComplete(d)
  \/ \E d \in Dirs : TunFinalizeSignaled(d)

SpecIoFair ==
  /\ InitIo
  /\ [][NextIoFair]_vars
  /\ \A d \in Dirs : WF_vars(OsComplete(d))
  /\ \A d \in Dirs : WF_vars(TunFinalizeSignaled(d))

(***************************************************************************)
(* The WIN32 build running netsh commands.                                 *)
(***************************************************************************)
InitNetsh ==
  /\ build = "win32"
  /\ tt = clear_tuntap
  /\ alive = FALSE
  /\ opt = [dev |-> NULL, dev_type |-> NULL, dev_node |-> NULL]
  /\ calls = <<>>
  /\ aborted = FALSE
  /\ os = [fds |-> {}, names |-> 0, hand_open |-> FALSE, addr |-> {},
           route |-> {}, persist |-> TRUE]
  /\ rel = NoRelease
  /\ snap = [addr |-> {}, route |-> {}]
  /\ io = IdleIo
  /\ drv = IdleDrv
  /\ iolog = IdleLog
  /\ ns = IdleNs
  /\ px = IdlePx
  /\ fn = IdleFn

NextNetsh ==
  \/ NetshCommand
  \/ NetshSleep1
  \/ NetshLock
  \/ NetshExec
  \/ NetshRelease
  \/ NetshSleep4
  \/ NetshFatal

SpecNetsh == InitNetsh /\ [][NextNetsh]_vars

(***************************************************************************)
(* Processes of one machine running external commands.                     *)
(***************************************************************************)
InitCmd ==
  /\ build \in CmdBuilds
  /\ tt = clear_tuntap
  /\ alive = FALSE
  /\ opt = [dev |-> NULL, dev_type |-> NULL, dev_node |-> NULL]
  /\ calls = <<>>
  /\ aborted = FALSE
  /\ os = [fds |-> {}, names |-> 0, hand_open |-> FALSE, addr |-> {},
           route |-> {}, persist |-> TRUE]
  /\ rel = NoRelease
  /\ snap = [addr |-> {}, route |-> {}]
  /\ io = IdleIo
  /\ drv = IdleDrv
  /\ iolog = IdleLog
  /\ ns = IdleNs
  /\ px = IdlePx
  /\ fn = IdleFn

NextCmd ==
  \E p \in Procs :
    \/ PNetshCommand(p)
    \/ PNetshSleep1(p)
    \/ PNetshFatal(p)
    \/ PNetshLock(p)
    \/ PNetshExecStart(p)
    \/ PNetshExecEnd(p)
    \/ PNetshRelease(p)
    \/ PNetshSleep4(p)
    \/ PRegisterDns(p)
    \/ PRegisterDnsLock(p)
    \/ PRegisterDnsExecStart(p)
    \/ PRegisterDnsExecEnd(p)
    \/ PRegisterDnsRelease(p)
    \/ PLinuxIfconfig(p)
    \/ PLinuxExecStart(p)
    \/ PLinuxExecEnd(p)

SpecCmd == InitCmd /\ [][NextCmd]_vars

(***************************************************************************)
(* The caller's wait for the adapter: tun_standby_init, then tun_standby   *)
(* again and again, on a Tap device with one of the --ip-win32 methods.     *)
(***************************************************************************)
InitStandby ==
  /\ build = "win32"
  /\ \E ipw \in IpWin32Types :
       tt = tun_standby_init(
              [clear_tuntap EXCEPT !.type = DEV_TYPE_TAP,
                                   !.local = IP(10, 3, 0, 1),
                                   !.remote_netmask = IP(255, 255, 255, 0),
                                   !.adapter_netmask = IP(255, 255, 255, 0),
                                   !.did_ifconfig_setup = TRUE,
                                   !.options.ip_win32_type = ipw])
  /\ alive = TRUE
  /\ opt = [dev |-> S_tap, dev_type |-> NULL, dev_node |-> NULL]
  /\ calls = <<>>
  /\ aborted = FALSE
  /\ os = [fds |-> {}, names |-> 0, hand_open |-> FALSE, addr |-> {},
           route |-> {}, persist |-> TRUE]
  /\ rel = NoRelease
  /\ snap = [addr |-> {}, route |-> {}]
  /\ io = IdleIo
  /\ drv = IdleDrv
  /\ iolog = IdleLog
  /\ ns = IdleNs
  /\ px = IdlePx
  /\ fn = StandbyStart

NextStandby ==
  \/ TunStandbyInit
  \/ TunStandby

SpecStandby == InitStandby /\ [][NextStandby]_vars

(***************************************************************************)
(* One call of one of the functions.                                       *)
(***************************************************************************)
FnCalls ==
  DevTypeCalls \cup IsTunP2pCalls \cup VerifyCalls \cup InitTunCalls
    \cup BuildDhcpCalls \cup OpenTunDhcpCalls
    \cup OpenTunGenericCalls \cup OpenTunAdaptersCalls
    \cup NetshIfconfigCalls
    \cup OpenTunConfigCalls
    \cup GuessCalls
    \cup VersionCalls
    \cup ReadWriteCalls
    \cup NetshOptionsCalls

\* the interface has an address left from an earlier run
InitFn ==
  /\ fn \in FnCalls
  /\ build \in (IF fn.op = "init_tun" THEN Builds ELSE {"win32"})
  /\ tt = clear_tuntap
  /\ alive = FALSE
  /\ opt = [dev |-> NULL, dev_type |-> NULL, dev_node |-> NULL]
  /\ calls = <<>>
  /\ aborted = FALSE
  /\ os = [fds |-> {}, names |-> 0, hand_open |-> FALSE,
           addr |-> {IP(10, 9, 9, 9)}, route |-> {}, persist |-> TRUE]
  /\ rel = NoRelease
  /\ snap = [addr |-> {}, route |-> {}]
  /\ io = IdleIo
  /\ drv = IdleDrv
  /\ iolog = IdleLog
  /\ ns = IdleNs
  /\ px = IdlePx

NextFn ==
  \/ DevTypeEnum
  \/ IsTunP2p
  \/ Verify255
  \/ InitTunFn
  \/ DoIfconfigFn
  \/ BuildDhcpOptionsString
  \/ OpenTunDhcpOptions
  \/ OpenTunGenericFn
  \/ OpenTunAdaptersFn
  \/ NetshIfconfigFn
  \/ OpenTunConfigFn
  \/ GuessTuntapDevFn
  \/ OpenTunVersionCheck
  \/ ReadWriteTun
  \/ NetshIfconfigOptionsFn

SpecFn == InitFn /\ [][NextFn]_vars


(***************************************************************************)
(* Properties of the life cycle.                                           *)
(***************************************************************************)
Called(op) == \E i \in 1..Len(calls) : calls[i] = op

\* The life-cycle state of the device object.
LifecycleState ==
  IF calls = <<>> THEN "Uninitialized"
  ELSE IF ~alive THEN "Closed"
  ELSE IF ~Called("open_tun") THEN "Validated"
  ELSE IF tt.did_ifconfig THEN "ConfiguredAtOs"
  ELSE "Opened"

\* close_tun has run on the object (and the process lives)
ClosedNow == ~aborted /\ ~alive /\ Called("close_tun")

\* C1: in every reachable state did_ifconfig (address applied to the OS) is
\* true only if did_ifconfig_setup (ifconfig parameters computed) is true.
C1_DidIfconfigImpliesSetup == tt.did_ifconfig => tt.did_ifconfig_setup

\* C1 witness: do_ifconfig has applied the address.
C1_Witness == Called("do_ifconfig") /\ tt.did_ifconfig /\ tt.did_ifconfig_setup

\* C2 as stated: the handle is valid if and only if the device is Opened or
\* ConfiguredAtOs, for every kind and build.
C2_HandleValidIffOpened ==
  ~aborted =>
    (HandleValid(build, tt) <=> LifecycleState \in {"Opened", "ConfiguredAtOs"})

\* the builds whose open_tun returns, with a warning, when open (2) or the
\* TUNSETIFF ioctl fails
ToleratesOpenFailure(b) == b \in {"linux_iproute", "linux_ifconfig"}

\* C2 amended: a valid handle implies Opened or ConfiguredAtOs (so it is
\* invalid after init_tun and after close_tun); after an open_tun that
\* returned, a Null device has no handle, and every other device has a valid
\* one except where open_tun tolerated a failed open, which leaves
\* actual_name NULL.
C2_HandleValidOnlyIfOpened ==
  (~aborted /\ Called("init_tun")) =>
    /\ HandleValid(build, tt) =>
         LifecycleState \in {"Opened", "ConfiguredAtOs"}
    /\ LifecycleState \in {"Opened", "ConfiguredAtOs"} =>
         /\ tt.type = DEV_TYPE_NULL =>
              ~HandleValid(build, tt) /\ tt.actual_name = S_null
         /\ tt.type # DEV_TYPE_NULL /\ ~HandleValid(build, tt) =>
              ToleratesOpenFailure(build) /\ tt.actual_name = NULL

\* C2 witness: a Null device after open_tun, with its name and no handle.
C2_Witness ==
  /\ ~aborted /\ LifecycleState = "Opened" /\ tt.type = DEV_TYPE_NULL
  /\ tt.actual_name = S_null /\ ~HandleValid(build, tt)

\* open_tun returned leaving the object half-initialised (no name)
HalfInitialised(t) == t.type # DEV_TYPE_NULL /\ t.actual_name = NULL

RemovalCalls == {"addr_del", "DeleteIPAddress"}
CloseCalls == {"close_fd", "close_ip_fd", "CloseHandle"}
CallsOf(cs, S) == {i \in DOMAIN cs : cs[i] \in S}

\* C3 as stated, for the half-initialised device: close_tun after a
\* tolerated open failure (and no address applied) issues no address
\* removal and closes no descriptor.
C3_HalfInitialisedClosesNothing ==
  (/\ ClosedNow /\ Called("open_tun") /\ HalfInitialised(rel.pre)
   /\ ~rel.pre.did_ifconfig) =>
    /\ CallsOf(rel.calls, RemovalCalls) = {}
    /\ CallsOf(rel.calls, CloseCalls) = {}

\* C3 amended: close_tun never closes a descriptor or handle that is not
\* open and never frees a name that is not allocated; each release is made
\* at most once and only if the resource was acquired (an address removal
\* only if did_ifconfig or an IP-helper context, a close only of a valid
\* handle, a free only of a non-NULL name); a device that never had a
\* handle, a name or an address releases nothing; a half-initialised device
\* has its descriptor closed exactly when open (2) had succeeded; and all
\* fields are cleared afterwards.
C3_CloseReleasesWhatWasAcquired ==
  ClosedNow =>
    /\ ~rel.bad_close /\ ~rel.bad_free
    /\ \A i, j \in DOMAIN rel.calls : rel.calls[i] = rel.calls[j] => i = j
    /\ Count(rel.calls, "addr_del") > 0 => rel.pre.did_ifconfig
    /\ Count(rel.calls, "DeleteIPAddress") > 0 => rel.pre.ipapi_context_defined
    /\ Count(rel.calls, "close_fd") > 0 => rel.pre.fd \in rel.pre_fds
    /\ Count(rel.calls, "close_ip_fd") > 0 => rel.pre.ip_fd \in rel.pre_fds
    /\ Count(rel.calls, "CloseHandle") > 0 =>
         rel.pre.hand # NULL /\ rel.pre_hand_open
    /\ Count(rel.calls, "free_name") > 0 =>
         rel.pre.actual_name # NULL /\ rel.pre_names > 0
    /\ (/\ ~HandleValid(build, rel.pre) /\ rel.pre.actual_name = NULL
        /\ ~rel.pre.did_ifconfig) =>
         /\ CallsOf(rel.calls, RemovalCalls \cup CloseCalls) = {}
         /\ Count(rel.calls, "free_name") = 0
    /\ (Called("open_tun") /\ HalfInitialised(rel.pre)) =>
         (Count(rel.calls, "close_fd") > 0 <=> rel.pre.fd >= 0)
    /\ tt = clear_tuntap
    /\ os.names = 0

\* C3 witness: close_tun on a device whose TUNSETIFF ioctl had failed: the
\* descriptor was open and is closed, there is no name to free.
C3_Witness ==
  /\ ClosedNow /\ Called("open_tun") /\ HalfInitialised(rel.pre)
  /\ rel.pre.fd >= 0 /\ Count(rel.calls, "close_fd") = 1
  /\ Count(rel.calls, "free_name") = 0

\* C4: for every run init_tun, open_tun, do_ifconfig, close_tun in which the
\* address was applied and no command of close_tun failed, the addresses
\* and routes present after close_tun equal those present before open_tun.
C4_CloseRestoresAddressesAndRoutes ==
  (/\ ClosedNow /\ rel.pre.did_ifconfig /\ rel.ok
   /\ calls \in {<<"init_tun", "open_tun", "do_ifconfig", "close_tun">>,
                 <<"init_tun", "init_tun_post", "open_tun", "do_ifconfig",
                   "close_tun">>}) =>
    /\ os.addr = snap.addr
    /\ os.route = snap.route

(***************************************************************************)
(* Properties of the WIN32 overlapped I/O.                                 *)
(***************************************************************************)
\* the step is the call op on direction d
IoStep(op, d) == iolog'.op = op /\ iolog'.dir = d /\ ~aborted'

QueueOp(d) == IF d = "reads" THEN "tun_read_queue" ELSE "tun_write_queue"

\* what an issue that the system answered with err leaves in direction d
IssuePost(d) ==
  LET r == io[d]
  IN /\ r.iostate \in {IOSTATE_IMMEDIATE_RETURN, IOSTATE_QUEUED}
     /\ iolog.state = r.iostate
     /\ iolog.err = NO_ERROR =>
          /\ r.iostate = IOSTATE_IMMEDIATE_RETURN
          /\ r.status = NO_ERROR /\ r.event = "signaled"
     /\ iolog.err = ERROR_IO_PENDING =>
          /\ r.iostate = IOSTATE_QUEUED
          /\ r.status = ERROR_IO_PENDING /\ r.event = "reset"
     /\ iolog.err \notin {NO_ERROR, ERROR_IO_PENDING} =>
          /\ r.iostate = IOSTATE_IMMEDIATE_RETURN
          /\ r.status = iolog.err /\ r.event = "signaled"

\* C5: tun_read_queue / tun_write_queue on a direction in state Initial
\* leave it ImmediateReturn with the event signaled (status 0 on an
\* immediate completion, the error code on an error other than pending) or
\* Queued with the event reset when the system reports pending; never
\* Initial.
C5_IssueLeavesInitial ==
  [][\A d \in Dirs :
       (IoStep(QueueOp(d), d) /\ io[d].iostate = IOSTATE_INITIAL) =>
         IssuePost(d)']_vars

\* C5 witness: the first write, issued while the event was still signaled
\* from init_tun_post, is queued and its event is reset.
C5_Witness ==
  /\ iolog.op = "tun_write_queue" /\ iolog.err = ERROR_IO_PENDING
  /\ io.issued.writes = 1 /\ io.completed.writes = 0
  /\ io.writes.iostate = IOSTATE_QUEUED /\ io.writes.event = "reset"

\* C6 as stated: every tun_finalize on a direction in state Queued or
\* ImmediateReturn leaves the direction Initial with the event reset.
C6_FinalizeAlwaysResets ==
  [][\A d \in Dirs :
       (/\ IoStep("tun_finalize", d)
        /\ io[d].iostate \in {IOSTATE_QUEUED, IOSTATE_IMMEDIATE_RETURN}) =>
         /\ io[d].iostate' = IOSTATE_INITIAL
         /\ io[d].event' = "reset"]_vars

\* C6 amended: tun_finalize on ImmediateReturn returns the known result
\* (size, or -1 with the stored status as last error) and leaves Initial
\* with the event reset; on Queued with the operation finished it returns
\* the overlapped result (size, or -1 on error) and leaves Initial with the
\* event reset; on Queued with the operation still pending
\* (ERROR_IO_INCOMPLETE) it returns -1 and leaves the direction Queued and
\* the event untouched.
C6_FinalizeResetsUnlessIncomplete ==
  [][\A d \in Dirs :
       IoStep("tun_finalize", d) =>
         /\ io[d].iostate = IOSTATE_IMMEDIATE_RETURN =>
              /\ io[d].iostate' = IOSTATE_INITIAL /\ io[d].event' = "reset"
              /\ iolog.ret' = IF io[d].status = NO_ERROR THEN io[d].size ELSE -1
              /\ io[d].status # NO_ERROR => iolog.last_error' = io[d].status
         /\ (io[d].iostate = IOSTATE_QUEUED /\ drv[d].st # "pending") =>
              /\ io[d].iostate' = IOSTATE_INITIAL /\ io[d].event' = "reset"
              /\ iolog.ret' = IF drv[d].st = "done_ok" THEN drv[d].size ELSE -1
         /\ (io[d].iostate = IOSTATE_QUEUED /\ drv[d].st = "pending") =>
              /\ io[d]' = io[d]
              /\ iolog.ret' = -1 /\ iolog.last_error' = ERROR_IO_INCOMPLETE]_vars

\* C6 witness: tun_finalize has found a queued read unfinished.
C6_Witness ==
  /\ iolog.op = "tun_finalize" /\ iolog.dir = "reads"
  /\ iolog.err = ERROR_IO_INCOMPLETE
  /\ io.reads.iostate = IOSTATE_QUEUED /\ iolog.ret = -1

\* C7: tun_finalize on a direction in state Initial returns -1 with last
\* error ERROR_INVALID_FUNCTION, leaves the state Initial and neither resets
\* nor signals the event.
C7_FinalizeOnInitialIsMisuse ==
  [][\A d \in Dirs :
       (IoStep("tun_finalize", d) /\ io[d].iostate = IOSTATE_INITIAL) =>
         /\ iolog.ret' = -1
         /\ iolog.last_error' = ERROR_INVALID_FUNCTION
         /\ io[d]' = io[d]]_vars

\* C7 witness: tun_finalize on the write direction before any write: the
\* event is still signaled as init_tun_post made it.
C7_Witness ==
  /\ iolog.op = "tun_finalize" /\ iolog.dir = "writes"
  /\ io.issued.writes = 0
  /\ io.writes.iostate = IOSTATE_INITIAL /\ io.writes.event = "signaled"
  /\ iolog.ret = -1 /\ iolog.last_error = ERROR_INVALID_FUNCTION

\* one state-resetting completion for each operation issued
OneCompletionPerIssue(d) ==
  /\ io.completed[d] <= io.issued[d]
  /\ io.issued[d] <= io.completed[d] + 1
  /\ io[d].iostate = IOSTATE_INITIAL <=> io.issued[d] = io.completed[d]

\* C8: when the driver finishes every pending operation and the caller
\* calls tun_finalize whenever a direction's event is signaled, a direction
\* that is Queued or ImmediateReturn eventually is Initial again (unless
\* the process has ended), and the completions that reset the state are
\* one for each operation issued.
C8_EveryIssueIsCompleted ==
  /\ [](\A d \in Dirs : OneCompletionPerIssue(d))
  /\ \A d \in Dirs :
       (io[d].iostate # IOSTATE_INITIAL) ~>
         (io[d].iostate = IOSTATE_INITIAL \/ aborted)

\* C8 witness: every read the run may issue has been issued and completed,
\* the last one from the queue.
C8_Witness ==
  /\ ~aborted /\ iolog.op = "tun_finalize" /\ iolog.dir = "reads"
  /\ iolog.err = NO_ERROR
  /\ io.issued.reads = MaxOps /\ io.completed.reads = MaxOps
  /\ io.reads.iostate = IOSTATE_INITIAL

Pos(cs, x) == CHOOSE i \in DOMAIN cs : cs[i] = x
Before(cs, x, y) == Pos(cs, x) < Pos(cs, y)

\* C9: WIN32 close_tun closes both overlapped records whether or not the
\* handle was opened; with a handle it calls CancelIo once, before it
\* closes either record and before CloseHandle, so that nothing is pending
\* in the driver afterwards.
C9_CancelBeforeRelease ==
  (ClosedNow /\ IsWin(build)) =>
    /\ Count(rel.calls, "overlapped_io_close_reads") = 1
    /\ Count(rel.calls, "overlapped_io_close_writes") = 1
    /\ rel.pre.hand = NULL =>
         Count(rel.calls, "CancelIo") = 0 /\ Count(rel.calls, "CloseHandle") = 0
    /\ rel.pre.hand # NULL =>
         /\ Count(rel.calls, "CancelIo") = 1
         /\ Count(rel.calls, "CloseHandle") = 1
         /\ Before(rel.calls, "CancelIo", "overlapped_io_close_reads")
         /\ Before(rel.calls, "CancelIo", "overlapped_io_close_writes")
         /\ Before(rel.calls, "CancelIo", "CloseHandle")
    /\ \A d \in Dirs : drv[d].st # "pending"

\* C9 witness: close_tun with a read queued and unfinished: the driver has
\* cancelled it.
C9_Witness ==
  /\ ClosedNow /\ IsWin(build) /\ iolog.op = "close_tun"
  /\ drv.reads.st = "cancelled"
  /\ Count(rel.calls, "CancelIo") = 1

(***************************************************************************)
(* Properties of netsh_command.                                            *)
(***************************************************************************)
IsExec(e) == e \in {"exec ok", "exec failed"}
IsSleep(e) == e \in {"sleep 1", "sleep 4"}

Execs(log) == {i \in DOMAIN log : IsExec(log[i])}

\* execution j follows execution i with no execution between them
Successive(log, i, j) ==
  /\ i \in Execs(log) /\ j \in Execs(log) /\ i < j
  /\ \A k \in Execs(log) : ~(i < k /\ k < j)

\* the sleeps between positions i and j of the log, in order
SleepsBetween(log, i, j) == SelectSeq(SubSeq(log, i + 1, j - 1), IsSleep)

\* C10, the delays as stated: successive attempts are separated by the
\* sleeps 1s then 4s.
C10_SleepOneThenFour ==
  \A i, j \in DOMAIN ns.log :
    Successive(ns.log, i, j) =>
      SleepsBetween(ns.log, i, j) = <<"sleep 1", "sleep 4">>

\* C10 amended: netsh_command (cmd, n) executes the command at most n
\* times, makes no attempt after one that succeeded, returns only after a
\* success and is fatal exactly when n attempts have failed; n is 4 for
\* "set address static" and "set address dhcp" and 2 for the DNS/WINS
\* delete/set/add commands; each attempt is preceded by a sleep of 1s and
\* each failed attempt is followed by a sleep of 4s, so that successive
\* attempts are separated by 4s then 1s.
C10_RetryBudgetAndDelays ==
  LET log == ns.log
      failed == Count(log, "exec failed")
  IN /\ Cardinality(Execs(log)) <= ns.n
     /\ ns.pc # "idle" =>
          ns.n = IF ns.cmd[2] = "address" THEN 4 ELSE 2
     /\ \A i \in Execs(log) :
          log[i] = "exec ok" =>
            \A k \in DOMAIN log : k > i => log[k] = "release"
     /\ ns.pc = "returned" =>
          Count(log, "exec ok") = 1 /\ log[Len(log)] = "release"
     /\ ns.pc = "fatal" <=>
          (failed = ns.n /\ ns.pc \notin {"idle", "release", "sleep4", "loop"})
     /\ ns.pc = "fatal" => Count(log, "exec ok") = 0
     /\ \A j \in Execs(log) :
          (\A i \in Execs(log) : i >= j) =>
            SleepsBetween(log, 0, j) = <<"sleep 1">>
     /\ \A i, j \in DOMAIN log :
          Successive(log, i, j) =>
            SleepsBetween(log, i, j) = <<"sleep 4", "sleep 1">>
     /\ ns.pc = "fatal" =>
          SubSeq(log, Len(log) - 1, Len(log)) = <<"sleep 4", "fatal">>

\* C10 witness: "set address static" has succeeded at its fourth and last
\* attempt.
C10_Witness ==
  /\ ns.pc = "returned" /\ ns.cmd = <<"set", "address", "static">>
  /\ Count(ns.log, "exec failed") = 3 /\ Count(ns.log, "exec ok") = 1

(***************************************************************************)
(* Properties of the processes running external commands.                  *)
(***************************************************************************)
\* the processes with an external command running
Running == {p \in Procs : px.proc[p].pc = "running"}

\* C11 as stated: whatever the build, no two external commands run at the
\* same time, and each runs while its process holds the semaphore.
C11_CommandsNeverOverlap ==
  /\ Cardinality(Running) <= 1
  /\ \A p \in Running : px.semaphore = p

\* C11 amended: on WIN32 a command of netsh_command or of
\* ipconfig_register_dns runs only while its process holds the semaphore,
\* which it has locked before and releases after (once for each attempt of
\* netsh_command, once around the four commands of ipconfig_register_dns),
\* so no two of these commands run at the same time; a process that holds
\* the semaphore is between its lock and its release.
C11_NetCommandsHoldSemaphore ==
  IsWin(build) =>
    /\ \A p \in Running : px.semaphore = p
    /\ Cardinality(Running) <= 1
    /\ \A p \in Procs :
         px.semaphore = p <=> px.proc[p].pc \in {"exec", "running", "release"}

\* C11 witness: a netsh command is running in one process while another
\* waits for the semaphore.
C11_Witness ==
  /\ IsWin(build)
  /\ \E p, q \in Procs :
       /\ px.proc[p].fun = "netsh_command" /\ px.proc[p].pc = "running"
       /\ px.semaphore = p
       /\ px.proc[q].pc = "lock"

(***************************************************************************)
(* Properties of the functions.                                            *)
(***************************************************************************)
Returned(op) == fn.op = op /\ fn.done

\* p is a prefix of s
IsPrefix(p, s) == Len(s) >= Len(p) /\ SubSeq(s, 1, Len(p)) = p

\* the kind the string names
KindNamed(s) ==
  IF s = <<"t", "u", "n">> THEN DEV_TYPE_TUN
  ELSE IF s = <<"t", "a", "p">> THEN DEV_TYPE_TAP
  ELSE IF s = <<"n", "u", "l", "l">> THEN DEV_TYPE_NULL
  ELSE DEV_TYPE_UNDEF

\* the kind whose string is a prefix of the name
KindPrefixed(s) ==
  IF IsPrefix(<<"t", "u", "n">>, s) THEN DEV_TYPE_TUN
  ELSE IF IsPrefix(<<"t", "a", "p">>, s) THEN DEV_TYPE_TAP
  ELSE IF IsPrefix(<<"n", "u", "l", "l">>, s) THEN DEV_TYPE_NULL
  ELSE DEV_TYPE_UNDEF

\* C12: dev_type_enum (name, explicit_type) with a name: when explicit_type
\* is given the result is Tun/Tap/Null exactly when explicit_type equals
\* "tun"/"tap"/"null", whatever the name, and Undefined otherwise; when it is
\* not given the result is the kind whose string is a prefix of the name and
\* Undefined if none is; ("tun7", none) = Tun, ("foo", "tap") = Tap,
\* ("foo", none) = Undefined.  (Without a name the result is Undefined.)
C12_DevTypeEnumClassifies ==
  Returned("dev_type_enum") =>
    LET name == fn.args[1]
        explicit_type == fn.args[2]
    IN /\ (name # NULL /\ explicit_type # NULL) =>
            fn.out = KindNamed(explicit_type)
       /\ (name # NULL /\ explicit_type = NULL) =>
            fn.out = KindPrefixed(name)
       /\ name = NULL => fn.out = DEV_TYPE_UNDEF
       /\ (name = <<"t", "u", "n", "7">> /\ explicit_type = NULL) =>
            fn.out = DEV_TYPE_TUN
       /\ (name = <<"f", "o", "o">> /\ explicit_type = <<"t", "a", "p">>) =>
            fn.out = DEV_TYPE_TAP
       /\ (name = <<"f", "o", "o">> /\ explicit_type = NULL) =>
            fn.out = DEV_TYPE_UNDEF

\* C12 witness: the name says tun and the explicit type says tap: Tap.
C12_Witness ==
  /\ Returned("dev_type_enum")
  /\ fn.args = <<<<"t", "u", "n", "7">>, <<"t", "a", "p">>>>
  /\ fn.out = DEV_TYPE_TAP

\* C13: is_tun_p2p is true exactly for kind Tun with a topology other than
\* Subnet (Net30 or P2P), false for Tap under every topology and for Tun
\* with Subnet, and a fatal error for every other kind (Null, Undefined).
C13_IsTunP2p ==
  Returned("is_tun_p2p") =>
    LET kind == fn.args.type
        topology == fn.args.topology
    IN /\ fn.out = "true" <=>
            (kind = DEV_TYPE_TUN /\ topology # TOP_SUBNET)
       /\ (kind = DEV_TYPE_TUN /\ topology \in {TOP_NET30, TOP_P2P}) =>
            fn.out = "true"
       /\ kind = DEV_TYPE_TAP => fn.out = "false"
       /\ (kind = DEV_TYPE_TUN /\ topology = TOP_SUBNET) => fn.out = "false"
       /\ fn.out = "fatal" <=> kind \in {DEV_TYPE_NULL, DEV_TYPE_UNDEF}

\* C13 witness: a Tap device with topology Net30 is not point-to-point.
C13_Witness ==
  /\ Returned("is_tun_p2p")
  /\ fn.args.type = DEV_TYPE_TAP /\ fn.args.topology = TOP_NET30
  /\ fn.out = "false"

\* the low two bits of an address and the rest of it
LowTwoBits(a) == a[4] % 4
Slash30(a) == <<a[1], a[2], a[3], a[4] - (a[4] % 4)>>

\* C14: verify_255_255_255_252 (local, remote) returns if and only if
\* local # remote, both are in the same /30 and neither has the low two
\* bits 00 or 11; every other pair is fatal, equal addresses with "must be
\* different" whatever else holds of them; (10.7.0.5, 10.7.0.6) succeeds
\* and (10.7.0.5, 10.7.0.5), (10.7.0.4, 10.7.0.9), (10.7.0.4, 10.7.0.7) fail.
C14_Verify30 ==
  Returned("verify_255_255_255_252") =>
    LET local == fn.args[1]
        remote == fn.args[2]
        good == /\ local # remote
                /\ Slash30(local) = Slash30(remote)
                /\ LowTwoBits(local) \notin {0, 3}
                /\ LowTwoBits(remote) \notin {0, 3}
    IN /\ ~fn.out.fatal <=> good
       /\ fn.out.fatal <=> fn.out.err # "NULL"
       /\ local = remote => fn.out.err = ERR_DIFFERENT
       /\ (local # remote /\ Slash30(local) # Slash30(remote)) =>
            fn.out.err = ERR_SAME_SUBNET
       /\ (local # remote /\ Slash30(local) = Slash30(remote) /\ ~good) =>
            fn.out.err = ERR_FIRST_OR_LAST
       /\ fn.args = <<<<10, 7, 0, 5>>, <<10, 7, 0, 6>>>> => ~fn.out.fatal
       /\ fn.args \in {<<<<10, 7, 0, 5>>, <<10, 7, 0, 5>>>>,
                       <<<<10, 7, 0, 4>>, <<10, 7, 0, 9>>>>,
                       <<<<10, 7, 0, 4>>, <<10, 7, 0, 7>>>>} => fn.out.fatal

\* C14 witness: 10.7.0.4 and 10.7.0.7 are the first and the last address of
\* their /30 and the call is fatal for that.
C14_Witness ==
  /\ Returned("verify_255_255_255_252")
  /\ fn.args = <<<<10, 7, 0, 4>>, <<10, 7, 0, 7>>>>
  /\ fn.out.fatal /\ fn.out.err = ERR_FIRST_OR_LAST

\* bit k of a byte
Bit(x, k) == (x \div (2 ^ k)) % 2

\* local | ~netmask, bit by bit
BroadcastByte(x, m) ==
  LET b(k) == IF Bit(x, k) = 1 \/ Bit(m, k) = 0 THEN 2 ^ k ELSE 0
  IN b(0) + b(1) + b(2) + b(3) + b(4) + b(5) + b(6) + b(7)

BroadcastOf(local, netmask) ==
  [i \in 1..4 |-> BroadcastByte(local[i], netmask[i])]

\* the variables the call has set in the environment
Published == fn.out.es.vars \ fn.args.es.vars
PublishedNames == {e[1] : e \in Published}

\* both --ifconfig parameters were given to init_tun and it returned
BothParms ==
  /\ Returned("init_tun") /\ ~fn.out.fatal
  /\ fn.args.local # NULL /\ fn.args.remote # NULL

\* C15: after init_tun with both ifconfig parameters and an environment: a
\* point-to-point device (Tun, topology other than Subnet) publishes
\* exactly ifconfig_local and ifconfig_remote; a Tap or Tun+Subnet device
\* publishes exactly ifconfig_local, ifconfig_netmask and
\* ifconfig_broadcast, the broadcast being local | ~netmask over 32 bits;
\* all in dotted decimal (10.8.0.2 / 10.8.0.1 on a Tun+Net30 gives
\* ifconfig_local=10.8.0.2 and ifconfig_remote=10.8.0.1; 192.168.50.1 /
\* 255.255.255.0 on a Tap gives ifconfig_broadcast=192.168.50.255).
C15_InitTunPublishes ==
  (BothParms /\ ~fn.args.es.null) =>
    LET kind == fn.out.tt.type
        p2p == kind = DEV_TYPE_TUN /\ fn.args.topology # TOP_SUBNET
        local == fn.args.local
        remote == fn.args.remote
    IN /\ p2p =>
            /\ Published = {<<"ifconfig_local", print_in_addr_t(local)>>,
                            <<"ifconfig_remote", print_in_addr_t(remote)>>}
            /\ PublishedNames = {"ifconfig_local", "ifconfig_remote"}
       /\ ~p2p =>
            /\ Published =
                 {<<"ifconfig_local", print_in_addr_t(local)>>,
                  <<"ifconfig_netmask", print_in_addr_t(remote)>>,
                  <<"ifconfig_broadcast",
                    print_in_addr_t(BroadcastOf(local, remote))>>}
            /\ PublishedNames =
                 {"ifconfig_local", "ifconfig_netmask", "ifconfig_broadcast"}
            /\ fn.out.tt.broadcast = BroadcastOf(local, remote)
       /\ (p2p /\ local = <<10, 8, 0, 2>> /\ remote = <<10, 8, 0, 1>>) =>
            Published =
              {<<"ifconfig_local", <<"1", "0", ".", "8", ".", "0", ".", "2">>>>,
               <<"ifconfig_remote", <<"1", "0", ".", "8", ".", "0", ".", "1">>>>}
       /\ (~p2p /\ local = <<192, 168, 50, 1>> /\ remote = <<255, 255, 255, 0>>) =>
            <<"ifconfig_broadcast",
              <<"1", "9", "2", ".", "1", "6", "8", ".", "5", "0", ".",
                "2", "5", "5">>>> \in Published

\* C15 witness: a Tap device with 192.168.50.1 255.255.255.0 has published
\* its broadcast address and no ifconfig_remote.
C15_Witness ==
  /\ BothParms /\ ~fn.args.es.null
  /\ fn.out.tt.type = DEV_TYPE_TAP
  /\ fn.args.local = <<192, 168, 50, 1>>
  /\ fn.out.tt.broadcast = <<192, 168, 50, 255>>
  /\ "ifconfig_broadcast" \in PublishedNames
  /\ "ifconfig_remote" \notin PublishedNames

\* C16: if an ifconfig parameter is absent at init_tun, the object is
\* returned with did_ifconfig_setup false, no variable published, no
\* message printed and no address field set; a do_ifconfig on it then
\* leaves every field of the object and the interface as they were and
\* cannot fail, whatever the external commands would do.
C16_AbsentParmsNoSetup ==
  /\ (Returned("init_tun") /\ (fn.args.local = NULL \/ fn.args.remote = NULL)) =>
       /\ ~fn.out.fatal
       /\ ~fn.out.tt.did_ifconfig_setup /\ ~fn.out.tt.did_ifconfig
       /\ fn.out.es = fn.args.es
       /\ fn.out.msgs = {}
       /\ fn.out.tt.local = ADDR0 /\ fn.out.tt.remote_netmask = ADDR0
       /\ fn.out.tt.broadcast = ADDR0
  /\ (/\ Returned("do_ifconfig")
      /\ (fn.args.init.local = NULL \/ fn.args.init.remote = NULL)) =>
       /\ fn.out.tt = fn.args.tt
       /\ fn.out.os = os
       /\ ~fn.out.fatal /\ ~fn.out.closed

\* C16 witness: do_ifconfig on an object made from a local address alone,
\* with commands that would fail: nothing has changed.
C16_Witness ==
  /\ Returned("do_ifconfig")
  /\ fn.args.init.local # NULL /\ fn.args.init.remote = NULL
  /\ ~fn.args.succeed
  /\ fn.out.tt = fn.args.tt /\ ~fn.out.tt.did_ifconfig

\* init_tun with the same arguments and strict_warn off
QuietInitTun ==
  LET a == fn.args
  IN init_tun(a.dev, a.dev_type, a.topology, a.local, a.remote,
              a.local_public, a.remote_public, FALSE, a.es, a.resolved, a.lan)

\* C20: for the same device, topology, ifconfig parameters and public
\* addresses, init_tun with strict_warn on returns the same object (kind,
\* topology, local, remote_netmask, broadcast, did_ifconfig_setup),
\* publishes the same environment and is fatal in the same cases as with
\* strict_warn off; what differs is warnings, and there are none with
\* strict_warn off.
C20_WarningsNeverBlock ==
  Returned("init_tun") =>
    /\ fn.out.tt = QuietInitTun.tt
    /\ fn.out.es = QuietInitTun.es
    /\ fn.out.fatal = QuietInitTun.fatal
    /\ \A m \in fn.out.msgs \ QuietInitTun.msgs : m[1] = M_WARN
    /\ ~fn.args.strict_warn => \A m \in fn.out.msgs : m[1] # M_WARN

\* C20 witness: a Tun+Net30 device given a netmask for a peer, a remote
\* public address in the same /24 and a LAN that contains the local
\* address: the three checks have warned and the device is set up.
C20_Witness ==
  /\ Returned("init_tun") /\ fn.args.strict_warn /\ ~fn.out.fatal
  /\ fn.out.tt.did_ifconfig_setup
  /\ \E m \in fn.out.msgs : m[1] = M_WARN /\ m[2][1] = "ifconfig"
  /\ \E m \in fn.out.msgs : m[1] = M_WARN /\ m[2][1] = "remote"
  /\ \E m \in fn.out.msgs : m[1] = M_WARN /\ m[2][1] = "TUN/TAP adapter"

(***************************************************************************)
(* The DHCP option string                                                  *)
(***************************************************************************)
\* one option on the wire: tag byte, length byte, payload
TLV(tag, payload) == <<tag, Len(payload)>> \o payload

RECURSIVE BigEndianAll(_)
\* the addresses of a list, four bytes each, most significant byte first
BigEndianAll(list) ==
  IF list = <<>> THEN <<>>
  ELSE <<Head(list)[1], Head(list)[2], Head(list)[3], Head(list)[4]>>
         \o BigEndianAll(Tail(list))

\* an address list on the wire: nothing when the list is empty
ListOption(tag, list) ==
  IF list = <<>> THEN <<>> ELSE TLV(tag, BigEndianAll(list))

\* a string option on the wire: nothing when the string is absent
StrOption(tag, s) == IF s.null THEN <<>> ELSE TLV(tag, s.str)

\* the options of o in the order 15, 47, 46, 6, 44, 42, 45, 43
OptionString(o) ==
  StrOption(15, o.domain) \o StrOption(47, o.netbios_scope)
    \o (IF o.netbios_node_type = 0 THEN <<>>
        ELSE TLV(46, <<o.netbios_node_type>>))
    \o ListOption(6, o.dns) \o ListOption(44, o.wins)
    \o ListOption(42, o.ntp) \o ListOption(45, o.nbdd)
    \o (IF o.disable_nbt THEN TLV(43, <<1, 4, 0, 0, 0, 2>>) ELSE <<>>)

\* every string of o has 1..255 bytes and the whole string fits the buffer
Encodable(o) ==
  /\ o.domain.null \/ Len(o.domain.str) \in 1..255
  /\ o.netbios_scope.null \/ Len(o.netbios_scope.str) \in 1..255
  /\ Len(OptionString(o)) <= DhcpBufCapacity

NoOptionBut(o, field) ==
  /\ o.domain.null /\ o.netbios_scope.null /\ o.netbios_node_type = 0
  /\ field = "dns" \/ o.dns = <<>>
  /\ o.wins = <<>> /\ o.ntp = <<>> /\ o.nbdd = <<>> /\ ~o.disable_nbt

\* C17: build_dhcp_options_string emits each present option as tag byte,
\* length byte, payload, in the order 15, 47, 46, 6, 44, 42, 45, 43; a DNS
\* list of k >= 1 servers is tag 6, length 4k and the addresses as four
\* big-endian bytes each in list order ([8.8.8.8, 8.8.4.4] gives
\* 6, 8, 8,8,8,8, 8,8,4,4), and an empty list emits no option.
C17_DhcpOptionsEncoding ==
  Returned("build_dhcp_options_string") =>
    /\ Encodable(fn.args) => fn.out.ok
    /\ fn.out.ok => fn.out.buf = OptionString(fn.args)
    /\ (NoOptionBut(fn.args, "dns")
          /\ fn.args.dns = <<IP(8, 8, 8, 8), IP(8, 8, 4, 4)>>)
         => fn.out.buf = <<6, 8, 8, 8, 8, 8, 8, 8, 4, 4>>
    /\ (NoOptionBut(fn.args, "dns") /\ fn.args.dns = <<>>)
         => fn.out.buf = <<>>

C17_Witness ==
  /\ Returned("build_dhcp_options_string")
  /\ fn.out.ok
  /\ ~fn.args.domain.null /\ ~fn.args.netbios_scope.null
  /\ fn.args.netbios_node_type # 0
  /\ fn.args.dns = <<IP(8, 8, 8, 8), IP(8, 8, 4, 4)>>
  /\ fn.args.wins # <<>> /\ fn.args.ntp # <<>> /\ fn.args.nbdd # <<>>
  /\ fn.args.disable_nbt

\* the options of o that are present, in the order of the encoder
Items(o) ==
  (IF o.domain.null THEN <<>> ELSE <<[tag |-> 15, payload |-> o.domain.str]>>)
    \o (IF o.netbios_scope.null THEN <<>>
        ELSE <<[tag |-> 47, payload |-> o.netbios_scope.str]>>)
    \o (IF o.netbios_node_type = 0 THEN <<>>
        ELSE <<[tag |-> 46, payload |-> <<o.netbios_node_type>>]>>)
    \o (IF o.dns = <<>> THEN <<>>
        ELSE <<[tag |-> 6, payload |-> BigEndianAll(o.dns)]>>)
    \o (IF o.wins = <<>> THEN <<>>
        ELSE <<[tag |-> 44, payload |-> BigEndianAll(o.wins)]>>)
    \o (IF o.ntp = <<>> THEN <<>>
        ELSE <<[tag |-> 42, payload |-> BigEndianAll(o.ntp)]>>)
    \o (IF o.nbdd = <<>> THEN <<>>
        ELSE <<[tag |-> 45, payload |-> BigEndianAll(o.nbdd)]>>)
    \o (IF o.disable_nbt
        THEN <<[tag |-> 43, payload |-> <<1, 4, 0, 0, 0, 2>>]>> ELSE <<>>)

\* the option cannot be appended to buf: its payload is empty or longer
\* than 255 bytes, or the option would overflow the buffer
Fails(item, buf) ==
  \/ Len(item.payload) < 1 \/ Len(item.payload) > 255
  \/ Len(buf) + 2 + Len(item.payload) > DhcpBufCapacity

RECURSIVE UpToFailure(_, _)
\* the buffer when encoding stops at the first option that fails
UpToFailure(items, buf) ==
  IF items = <<>> \/ Fails(Head(items), buf) THEN buf
  ELSE UpToFailure(Tail(items),
                   buf \o TLV(Head(items).tag, Head(items).payload))

RECURSIVE SkippingFailures(_, _)
\* the buffer when an option that fails is left out and encoding goes on
SkippingFailures(items, buf) ==
  IF items = <<>> THEN buf
  ELSE IF Fails(Head(items), buf) THEN SkippingFailures(Tail(items), buf)
  ELSE SkippingFailures(Tail(items),
                        buf \o TLV(Head(items).tag, Head(items).payload))

RECURSIVE AnyFails(_, _)
AnyFails(items, buf) ==
  IF items = <<>> THEN FALSE
  ELSE IF Fails(Head(items), buf) THEN TRUE
  ELSE AnyFails(Tail(items),
                buf \o TLV(Head(items).tag, Head(items).payload))

\* what the caller in open_tun does with the result of the encoder
CallerSkipsOnFailure ==
  Returned("open_tun_dhcp_options") =>
    IF AnyFails(Items(fn.args.o), <<>>)
    THEN /\ ~fn.out.set_opt
         /\ ~fn.out.fatal
         /\ \E m \in fn.out.msgs : m[1] = M_WARN
    ELSE /\ fn.out.set_opt
         /\ fn.out.opt = OptionString(fn.args.o)
         /\ fn.out.fatal = ~fn.args.ioctl_ok

\* C18 as stated: when an option cannot be encoded, build_dhcp_options_string
\* reports a failure and nothing is written to the buffer at or after the
\* failing option; the caller skips the set-DHCP-options call with a warning
\* and open_tun goes on.
C18_EncodingAbortsAtFailure ==
  /\ Returned("build_dhcp_options_string") =>
       (AnyFails(Items(fn.args), <<>>) =>
          /\ ~fn.out.ok
          /\ fn.out.buf = UpToFailure(Items(fn.args), <<>>))
  /\ CallerSkipsOnFailure

\* C18: when an option cannot be encoded (an empty string, a payload longer
\* than 255 bytes, or one that would overflow the buffer),
\* build_dhcp_options_string writes nothing for that option, goes on with
\* the options after it, which are written when they fit, and reports a
\* failure when it returns; the caller skips the set-DHCP-options call with
\* a warning and open_tun goes on.
C18_EncodingSkipsFailedOption ==
  /\ Returned("build_dhcp_options_string") =>
       /\ fn.out.ok = ~AnyFails(Items(fn.args), <<>>)
       /\ fn.out.buf = SkippingFailures(Items(fn.args), <<>>)
  /\ CallerSkipsOnFailure

\* a failed domain string followed by a DNS option that is written
C18_Witness ==
  /\ Returned("build_dhcp_options_string")
  /\ ~fn.out.ok
  /\ ~fn.args.domain.null /\ Len(fn.args.domain.str) > 255
  /\ fn.args.dns = <<IP(8, 8, 8, 8), IP(8, 8, 4, 4)>>
  /\ fn.out.buf = <<6, 8, 8, 8, 8, 8, 8, 8, 4, 4>>

\* the caller after a failed encoding
C18_WitnessCaller ==
  /\ Returned("open_tun_dhcp_options")
  /\ ~fn.out.set_opt
  /\ ~fn.out.fatal

(***************************************************************************)
(* Probing for a device                                                    *)
(***************************************************************************)
\* the units 0 .. n - 1 in increasing order
UnitsBelow(n) == [i \in 1..n |-> i - 1]

\* the first n adapters of the registry, in the order of enumeration
FirstAdapters(tap_reg, n) == [i \in 1..n |-> tap_reg[i]]

\* the lowest unit whose node opens
FirstUnit(avail) == CHOOSE i \in avail : \A j \in avail : i <= j

\* the position of the first adapter that opens
FirstFree(tap_reg, free) ==
  CHOOSE i \in 1..Len(tap_reg) :
    /\ tap_reg[i] \in free
    /\ \A j \in 1..(i - 1) : tap_reg[j] \notin free

NoneTwice(tried) ==
  \A i, j \in 1..Len(tried) : i # j => tried[i] # tried[j]

\* open_tun_generic binds the first node whose open succeeds
GenericBindsFirstThatOpens ==
  Returned("open_tun_generic") =>
    /\ NoneTwice(fn.out.tried)
    /\ IF fn.args.avail = {}
       THEN /\ fn.out.fatal
            /\ fn.out.tried = UnitsBelow(MaxUnits)
       ELSE /\ ~fn.out.fatal
            /\ fn.out.tried = UnitsBelow(FirstUnit(fn.args.avail) + 1)
            /\ fn.out.tt.fd >= 0
            /\ fn.out.tt.actual_name =
                 fn.args.dev \o <<DigitChar(FirstUnit(fn.args.avail))>>

\* the WIN32 open_tun binds the first adapter that opens
AdaptersBindFirstThatOpens ==
  Returned("open_tun_adapters") =>
    /\ NoneTwice(fn.out.tried)
    /\ IF \A i \in 1..Len(fn.args.tap_reg) : fn.args.tap_reg[i] \notin fn.args.free
       THEN /\ fn.out.fatal
            /\ fn.out.tried = fn.args.tap_reg
       ELSE /\ ~fn.out.fatal
            /\ fn.out.tried =
                 FirstAdapters(fn.args.tap_reg,
                               FirstFree(fn.args.tap_reg, fn.args.free))
            /\ fn.out.guid =
                 <<fn.args.tap_reg[FirstFree(fn.args.tap_reg, fn.args.free)]>>

\* C19: probing binds to the first candidate that opens, in order, and is
\* bounded: open_tun_generic tries /dev/<name>0, /dev/<name>1, ... in
\* increasing order, stops at the first node whose open succeeds (any
\* descriptor >= 0) and names the device <name><i>; the WIN32 open_tun tries
\* each registered adapter once in the order of enumeration and stops at the
\* first that opens; no candidate is tried twice and exhausting the
\* candidates is fatal.
C19_ProbingBindsFirstThatOpens ==
  GenericBindsFirstThatOpens /\ AdaptersBindFirstThatOpens

\* open (2) returned descriptor 0 for the first node and the probing went on
C19_DescriptorZeroSkipped ==
  /\ Returned("open_tun_generic")
  /\ 0 \in fn.args.avail
  /\ 0 \notin fn.args.fds
  /\ 0 \in fn.out.fds
  /\ fn.out.tt.fd # 0
  /\ Len(fn.out.tried) > 1

(***************************************************************************)
(* The netsh commands of netsh_ifconfig                                    *)
(***************************************************************************)
\* the positions of the commands of a call that are about type
CmdsAbout(out, type) == {i \in 1..Len(out.cmds) : out.cmds[i].cmd[2] = type}

\* the adapter already has the requested address and netmask
AddressAlreadySet(a) ==
  ~a.ai.null /\ a.ai.ip = a.ip /\ a.ai.netmask = a.netmask

\* the servers the adapter has
LiveDns(a) == IF a.pai.null THEN <<>> ELSE a.pai.list
LiveWins(a) == IF a.ai.null THEN <<>> ELSE a.ai.wins

Elems(list) == {list[i] : i \in 1..Len(list)}

\* C21 as stated: with the netsh method (the call of do_ifconfig) the live
\* adapter state is fetched before commands are issued; no 'set address' is
\* issued when the adapter already has the address and netmask, and no
\* DNS/WINS command is issued for a server the adapter already has.
C21_NetshSkipsWhatIsSet ==
  (Returned("netsh_ifconfig") /\ fn.args.caller = "do_ifconfig") =>
    /\ fn.out.fetched
    /\ AddressAlreadySet(fn.args) => CmdsAbout(fn.out, "address") = {}
    /\ \A i \in CmdsAbout(fn.out, "dns") :
         fn.out.cmds[i].cmd[1] \in {"set", "add"}
           => fn.out.cmds[i].addr \notin Elems(LiveDns(fn.args))
    /\ \A i \in CmdsAbout(fn.out, "wins") :
         fn.out.cmds[i].cmd[1] \in {"set", "add"}
           => fn.out.cmds[i].addr \notin Elems(LiveWins(fn.args))

\* C21: the live adapter state is fetched, and settings that are already
\* correct are skipped, only where netsh_ifconfig is called with
\* NI_TEST_FIRST, that is by open_tun and tun_standby in adaptive mode: then
\* 'set address' is issued exactly when the adapter does not have the
\* address and netmask, and no DNS (WINS) command is issued when the
\* adapter's server list equals the requested one, while a list that differs
\* is deleted and set again whole.  With the netsh method do_ifconfig calls
\* it without NI_TEST_FIRST: nothing is fetched, 'set address' is always the
\* first command and both server lists are always deleted and set again.
C21_NetshTestsFirstOnlyWhenAdaptive ==
  Returned("netsh_ifconfig") =>
    IF fn.args.caller = "do_ifconfig"
    THEN /\ ~fn.out.fetched
         /\ fn.out.cmds[1].cmd = <<"set", "address", "static">>
         /\ ~fn.out.fatal =>
              /\ \E i \in CmdsAbout(fn.out, "dns") :
                   fn.out.cmds[i].cmd = <<"delete", "dns", "all">>
              /\ \E i \in CmdsAbout(fn.out, "wins") :
                   fn.out.cmds[i].cmd = <<"delete", "wins", "all">>
              /\ Cardinality(CmdsAbout(fn.out, "dns")) = 1 + Len(fn.args.to.dns)
              /\ Cardinality(CmdsAbout(fn.out, "wins"))
                   = 1 + Len(fn.args.to.wins)
    ELSE /\ fn.out.fetched
         /\ AddressAlreadySet(fn.args) => CmdsAbout(fn.out, "address") = {}
         /\ ~AddressAlreadySet(fn.args)
              => fn.out.cmds[1].cmd = <<"set", "address", "static">>
         /\ fn.args.to.dns = LiveDns(fn.args)
              => CmdsAbout(fn.out, "dns") = {}
         /\ fn.args.to.wins = LiveWins(fn.args)
              => CmdsAbout(fn.out, "wins") = {}
         /\ ~fn.out.fatal =>
              /\ fn.args.to.dns # LiveDns(fn.args) =>
                   Cardinality(CmdsAbout(fn.out, "dns"))
                     = 1 + Len(fn.args.to.dns)
              /\ fn.args.to.wins # LiveWins(fn.args) =>
                   Cardinality(CmdsAbout(fn.out, "wins"))
                     = 1 + Len(fn.args.to.wins)

\* do_ifconfig's call for an adapter that has the address and the DNS
\* servers already
C21_Witness ==
  /\ Returned("netsh_ifconfig")
  /\ fn.args.caller = "do_ifconfig"
  /\ AddressAlreadySet(fn.args)
  /\ fn.args.to.dns # <<>> /\ fn.args.to.dns = LiveDns(fn.args)
  /\ ~fn.out.fatal
  /\ CmdsAbout(fn.out, "address") # {}
  /\ Cardinality(CmdsAbout(fn.out, "dns")) = 3

(***************************************************************************)
(* The adaptive method of the WIN32 open_tun                               *)
(***************************************************************************)
\* the same call with another --ip-win32 method
WithMethod(ipw) == do_ifconfig_open_tun([fn.args EXCEPT !.ipw = ipw])

\* the netsh commands of do_ifconfig and open_tun together
AllNetsh(out) == out.ifconfig \o out.netsh

\* the DeviceIoControl calls with the given code
IoctlsOf(out, code) ==
  {i \in 1..Len(out.ioctls) : out.ioctls[i].code = code}

\* what the DHCP actions do, whoever does them
DhcpWhat(out) == [i \in 1..Len(out.dhcp) |-> out.dhcp[i].what]

RECURSIVE IsSubsequence(_, _)
IsSubsequence(s, t) ==
  IF s = <<>> THEN TRUE
  ELSE IF t = <<>> THEN FALSE
  ELSE IF Head(s) = Head(t) THEN IsSubsequence(Tail(s), Tail(t))
  ELSE IsSubsequence(s, Tail(t))

\* the adapter has none of the requested settings
NothingAlreadySet ==
  /\ ~test_adapter_ip_netmask(fn.args.ai, fn.out.tt.local,
                              fn.out.tt.adapter_netmask)
  /\ fn.args.to.dns # LiveDns(fn.args)
  /\ fn.args.to.wins # LiveWins(fn.args)

AdaptiveCall ==
  /\ Returned("open_tun_win32_config")
  /\ fn.args.ipw = IPW32_SET_ADAPTIVE

\* C22 as stated: in adaptive mode open_tun behaves as the netsh method
\* when the adapter is not DHCP-enabled (same external commands, no
\* DHCP-masquerade device-control call) and as the DHCP-masquerade method
\* when it is (same device-control calls and DHCP release/renew actions, no
\* netsh command); exactly one of the two is taken.
C22_AdaptiveIsNetshOrMasq ==
  AdaptiveCall =>
    /\ fn.args.status # DHCP_STATUS_ENABLED =>
         /\ AllNetsh(fn.out) = AllNetsh(WithMethod(IPW32_SET_NETSH))
         /\ IoctlsOf(fn.out, "TAP_IOCTL_CONFIG_DHCP_MASQ") = {}
    /\ fn.args.status = DHCP_STATUS_ENABLED =>
         /\ fn.out.ioctls = WithMethod(IPW32_SET_DHCP_MASQ).ioctls
         /\ DhcpWhat(fn.out) = DhcpWhat(WithMethod(IPW32_SET_DHCP_MASQ))
         /\ AllNetsh(fn.out) = <<>>
    /\ fn.out.dhcp_masq = (fn.args.status = DHCP_STATUS_ENABLED)

\* C22: in adaptive mode exactly one of two behaviours is taken.  For an
\* adapter that is not DHCP-enabled open_tun makes the DeviceIoControl calls
\* of the netsh method, none of them the DHCP masquerade, and runs the netsh
\* commands of the netsh method except those for settings the adapter
\* already has (the same commands when it has none of them).  For a
\* DHCP-enabled adapter it runs no netsh command and makes the
\* DeviceIoControl calls of the DHCP-masquerade method; the same DHCP
\* release and renew are done, by the process fork_dhcp_action starts and
\* not by open_tun itself.
C22_AdaptiveTestsFirstOrMasq ==
  AdaptiveCall =>
    /\ fn.args.status # DHCP_STATUS_ENABLED =>
         /\ IsSubsequence(AllNetsh(fn.out),
                          AllNetsh(WithMethod(IPW32_SET_NETSH)))
         /\ (~fn.out.fatal /\ NothingAlreadySet) =>
              AllNetsh(fn.out) = AllNetsh(WithMethod(IPW32_SET_NETSH))
         /\ fn.out.ioctls = WithMethod(IPW32_SET_NETSH).ioctls
         /\ fn.out.fatal = WithMethod(IPW32_SET_NETSH).fatal
         /\ IoctlsOf(fn.out, "TAP_IOCTL_CONFIG_DHCP_MASQ") = {}
    /\ fn.args.status = DHCP_STATUS_ENABLED =>
         /\ fn.out.ioctls = WithMethod(IPW32_SET_DHCP_MASQ).ioctls
         /\ fn.out.fatal = WithMethod(IPW32_SET_DHCP_MASQ).fatal
         /\ DhcpWhat(fn.out) = DhcpWhat(WithMethod(IPW32_SET_DHCP_MASQ))
         /\ \A i \in 1..Len(fn.out.dhcp) : fn.out.dhcp[i].by = "forked"
         /\ AllNetsh(fn.out) = <<>>
    /\ fn.out.dhcp_masq = (fn.args.status = DHCP_STATUS_ENABLED)
    /\ ~fn.out.fatal =>
         (IoctlsOf(fn.out, "TAP_IOCTL_CONFIG_DHCP_MASQ") # {}
            <=> fn.args.status = DHCP_STATUS_ENABLED)

\* adaptive mode on an adapter without DHCP that has the address already:
\* the netsh method would set it again
C22_Witness ==
  /\ AdaptiveCall
  /\ fn.args.status = DHCP_STATUS_DISABLED
  /\ ~fn.out.fatal
  /\ test_adapter_ip_netmask(fn.args.ai, fn.out.tt.local,
                             fn.out.tt.adapter_netmask)
  /\ Len(AllNetsh(fn.out)) < Len(AllNetsh(WithMethod(IPW32_SET_NETSH)))

\* adaptive mode on a DHCP-enabled adapter with a release and a renew
C22_WitnessMasq ==
  /\ AdaptiveCall
  /\ fn.args.status = DHCP_STATUS_ENABLED
  /\ ~fn.out.fatal
  /\ Len(fn.out.dhcp) = 2
  /\ IoctlsOf(fn.out, "TAP_IOCTL_CONFIG_DHCP_MASQ") # {}

(***************************************************************************)
(* The adapter name derived when no --dev-node is given                    *)
(***************************************************************************)
\* the control-panel name of the only adapter, when it has one (the name
\* "NULL" counts as none)
OnlyAdapterName(a) ==
  LET name == a.panel_reg[a.tap_reg[1]]
  IN IF name # NULL /\ name # S_NULL THEN name ELSE <<a.tap_reg[1]>>

BelowMinimum(v) ==
  \/ v[1] < TAP_WIN32_MIN_MAJOR
  \/ v[1] = TAP_WIN32_MIN_MAJOR /\ v[2] < TAP_WIN32_MIN_MINOR

\* C24: the WIN32 open_tun ends the process on the driver version check if
\* and only if the reported (major, minor) is below (TAP_WIN32_MIN_MAJOR,
\* TAP_WIN32_MIN_MINOR), major compared first; every version at or above
\* the minimum is accepted, and a failed version query counts as 0.0.
C24_VersionBelowMinimumIsFatal ==
  Returned("open_tun_version_check") =>
    /\ ~fn.args.query_ok => fn.out.info = <<0, 0>>
    /\ fn.out.fatal <=> BelowMinimum(fn.out.info)

\* a driver with a higher major version than the minimum is refused
C24_NewerMajorRefused ==
  /\ Returned("open_tun_version_check")
  /\ fn.args.query_ok
  /\ fn.args.major > TAP_WIN32_MIN_MAJOR
  /\ fn.out.fatal

(***************************************************************************)
(* The 4-byte header of tunnel-mode packets                                *)
(***************************************************************************)
\* the call is on a backend and device that frames packets with a header
Framed(a) ==
  \/ a.build \in {"openbsd", "freebsd"} /\ a.type = DEV_TYPE_TUN
  \/ IsLinux(a.build) /\ a.ipv6

ReadWriteReturned ==
  fn.op \in {"read_tun", "write_tun"} /\ fn.done

\* C25: where packets carry a 4-byte header (Tun devices on OpenBSD and
\* FreeBSD/DragonFly, Linux with IPv6 mode on) read_tun and write_tun
\* return r - 4 for a raw result r > 4, 0 for 0 < r <= 4 and r for r <= 0,
\* so an error -1 stays -1 and a successful call never gives a negative
\* length; Tap devices on the BSD backends return r unchanged.
C25_HeaderStripped ==
  ReadWriteReturned =>
    /\ Framed(fn.args) =>
         fn.out.len = (IF fn.args.r > 4 THEN fn.args.r - 4
                       ELSE IF fn.args.r > 0 THEN 0 ELSE fn.args.r)
    /\ (fn.args.build \in {"openbsd", "freebsd"}
          /\ fn.args.type = DEV_TYPE_TAP) => fn.out.len = fn.args.r

\* Linux with IPv6 mode on: the error -1 of readv comes back as -5
C25_LinuxErrorShifted ==
  /\ ReadWriteReturned
  /\ IsLinux(fn.args.build) /\ fn.args.ipv6
  /\ fn.args.r = -1
  /\ fn.out.len = -5

(***************************************************************************)
(* Queue calls on a direction that is busy                                 *)
(***************************************************************************)
\* C26: while a direction is Queued or ImmediateReturn, tun_read_queue and
\* tun_write_queue call neither ReadFile nor WriteFile, leave the
\* direction's buffer, event, status and state as they are and return the
\* current state; so no operation is ever issued on a direction whose
\* previous operation the driver still holds, whatever the caller's
\* sequence of queue and finalize calls.
C26_BusyDirectionNotReissued ==
  [][\A d \in Dirs :
       IoStep(QueueOp(d), d) =>
         /\ io[d].iostate \in {IOSTATE_QUEUED, IOSTATE_IMMEDIATE_RETURN} =>
              /\ io'[d] = io[d]
              /\ io'.issued[d] = io.issued[d]
              /\ drv' = drv
              /\ iolog'.state = io[d].iostate
         /\ io'.issued[d] > io.issued[d] =>
              /\ drv[d].st # "pending"
              /\ io.issued[d] = io.completed[d]]_vars

\* C26 witness: a read was queued and is still pending at the driver, and
\* the last call was a tun_read_queue that found the direction Queued and
\* returned that state with one read issued in all.
C26_Witness ==
  /\ iolog.op = "tun_read_queue" /\ iolog.err = NO_ERROR
  /\ iolog.state = IOSTATE_QUEUED
  /\ io.reads.iostate = IOSTATE_QUEUED /\ drv.reads.st = "pending"
  /\ io.issued.reads = 1 /\ io.completed.reads = 0

(***************************************************************************)
(* Lock and release of the command semaphore                               *)
(***************************************************************************)
\* process p is between a lock and its release
InCommands(q) == q.pc \in {"exec", "running", "release"}

\* C27: in netsh_command and ipconfig_register_dns every lock of the
\* command semaphore is followed by its release on every path: a process
\* takes the semaphore only when nobody holds it (so never twice without a
\* release between), keeps it only while its commands execute, does not
\* hold it in the sleeps between the attempts nor when the attempts are
\* used up and the process ends, and ipconfig_register_dns keeps it from
\* before its first command until after its fourth, whatever the commands
\* return.
C27_LockMatchedByRelease ==
  [][IsWin(build) =>
       \A p \in Procs :
         LET q == px.proc[p]
             q1 == px'.proc[p]
         IN /\ (px'.semaphore = p /\ px.semaphore # p) =>
                 /\ px.semaphore = 0
                 /\ q.pc = "lock" /\ q1.pc = "exec"
            /\ (px.semaphore = p /\ px'.semaphore # p) =>
                 /\ px'.semaphore = 0
                 /\ q.pc = "release" /\ ~InCommands(q1)
            /\ (px.semaphore = p /\ q1 # q /\ q.pc # "release") =>
                 /\ px'.semaphore = p /\ InCommands(q1)
            /\ ~InCommands(q1) => px'.semaphore # p
            /\ (q1.fun = "ipconfig_register_dns" /\ q1 # q) =>
                 /\ q1.pc # "fatal"
                 /\ q1.pc = "lock" => q1.k = RegisterDnsCommands
                 /\ q1.pc = "release" => q1.k = 0
                 /\ (q1.k > 0 /\ q1.pc # "lock") => px'.semaphore = p]_vars

\* C27 witness: one process sleeps after an attempt of netsh_command that
\* failed and holds nothing, while the other is in ipconfig_register_dns,
\* has seen a command fail and still holds the semaphore for the commands
\* that remain.
C27_Witness ==
  /\ IsWin(build)
  /\ \E p, r \in Procs :
       /\ px.proc[p].fun = "netsh_command" /\ px.proc[p].pc = "sleep4"
       /\ ~px.proc[p].status
       /\ px.proc[r].fun = "ipconfig_register_dns" /\ px.proc[r].pc = "exec"
       /\ ~px.proc[r].status /\ px.proc[r].k = 2
       /\ px.semaphore = r

\* the attempts of netsh_command are used up: the process ends and the
\* semaphore is free for the other, which takes it
C27_WitnessFatal ==
  /\ IsWin(build)
  /\ \E p, r \in Procs :
       /\ px.proc[p].pc = "fatal"
       /\ px.proc[r].fun = "netsh_command" /\ px.proc[r].pc = "running"
       /\ px.semaphore = r

(***************************************************************************)
(* The commands of netsh_ifconfig_options                                  *)
(***************************************************************************)
\* the servers the adapter has now
CurrentServers(a) == IF a.current.null THEN <<>> ELSE a.current.list

\* the words and the address of each command issued
Issue(out) ==
  [i \in 1..Len(out.cmds) |-> <<out.cmds[i].cmd, out.cmds[i].addr>>]

\* 'delete <type> all', 'set <type> static' for the first server and
\* 'add <type>' for each further server, in the order of the list
DeleteSetAdd(a) ==
  <<<<<<"delete", a.type, "all">>, ADDR0>>>>
    \o [i \in 1..Len(a.addr_list) |->
          <<<<IF i = 1 THEN "set" ELSE "add", a.type, "static">>,
            a.addr_list[i]>>]

\* C28: netsh_ifconfig_options issues no command at all exactly when
\* test-first is set and the adapter's servers are the requested ones,
\* one by one; otherwise it issues 'delete ... all', then 'set ... static'
\* for the first requested server and 'add' for each further one in list
\* order (up to the command that fails and ends the process, if one
\* does); set and add never come without the delete before them and set
\* comes at most once.
C28_DeleteThenSetThenAdd ==
  Returned("netsh_ifconfig_options") =>
    LET a == fn.args
        did == Issue(fn.out)
    IN /\ did = <<>> <=> (a.test_first /\ CurrentServers(a) = a.addr_list)
       /\ did # <<>> =>
            /\ IsPrefix(did, DeleteSetAdd(a))
            /\ did[1][1][1] = "delete"
            /\ ~fn.out.fatal => did = DeleteSetAdd(a)
            /\ fn.out.fatal => Len(did) = a.fail_at
       /\ Cardinality({i \in 1..Len(did) : did[i][1][1] = "set"}) <= 1

\* C28 witness: with test-first the adapter has the two requested servers
\* in the other order: everything is deleted, the first is set and the
\* second added.
C28_Witness ==
  /\ Returned("netsh_ifconfig_options")
  /\ fn.args.test_first /\ ~fn.out.fatal
  /\ fn.args.addr_list = <<IP(8, 8, 8, 8), IP(8, 8, 4, 4)>>
  /\ CurrentServers(fn.args) = <<IP(8, 8, 4, 4), IP(8, 8, 8, 8)>>
  /\ Len(fn.out.cmds) = 3
  /\ fn.out.cmds[1].cmd = <<"delete", fn.args.type, "all">>
  /\ fn.out.cmds[2].cmd[1] = "set" /\ fn.out.cmds[3].cmd[1] = "add"

\* with test-first and the requested servers already there nothing is
\* issued
C28_WitnessNothing ==
  /\ Returned("netsh_ifconfig_options")
  /\ fn.args.test_first /\ fn.args.addr_list # <<>>
  /\ CurrentServers(fn.args) = fn.args.addr_list
  /\ fn.out.cmds = <<>>

(***************************************************************************)
(* The address of the masquerading DHCP server                             *)
(***************************************************************************)
\* open_tun has told the driver to masquerade as a DHCP server and has
\* gone on
MasqEnabled ==
  /\ Returned("open_tun_win32_config")
  /\ fn.out.dhcp_masq /\ ~fn.out.fatal

\* the TAP_IOCTL_CONFIG_DHCP_MASQ calls of the call: local address, netmask
\* and DHCP server address
MasqIoctls ==
  {fn.out.ioctls[i].ep : i \in IoctlsOf(fn.out, "TAP_IOCTL_CONFIG_DHCP_MASQ")}

\* the server address is not the local one and is in the local subnet
FreeInSubnet(ep) ==
  /\ ep[3] # ep[1]
  /\ And32(ep[3], ep[2]) = And32(ep[1], ep[2])

\* C29: whenever the WIN32 open_tun enables the DHCP masquerade and does
\* not abort, the DHCP server address it gives the driver differs from the
\* interface's local address and is in the subnet of the local address
\* under the netmask in force, for Tap devices with any offset and for Tun
\* devices in point-to-point and in subnet topology.
C29_MasqServerFreeInSubnet ==
  MasqEnabled =>
    /\ MasqIoctls # {}
    /\ \A ep \in MasqIoctls : FreeInSubnet(ep)

\* a Tun device in subnet topology whose local address is the last host
\* address of the subnet: the server address is the local address
C29_TunSubnetClash ==
  /\ MasqEnabled
  /\ fn.args.dev.type = DEV_TYPE_TUN /\ fn.args.dev.topology = TOP_SUBNET
  /\ fn.args.dev.local = IP(10, 8, 0, 254)
  /\ \E ep \in MasqIoctls : ep[3] = ep[1]

\* Tap devices and point-to-point Tun devices: the server address is free
\* and in the subnet
C29_TapAndP2pFreeInSubnet ==
  (MasqEnabled /\ ~(fn.args.dev.type = DEV_TYPE_TUN
                      /\ fn.args.dev.topology = TOP_SUBNET)) =>
    /\ MasqIoctls # {}
    /\ \A ep \in MasqIoctls : FreeInSubnet(ep)

(***************************************************************************)
(* The standby cycle                                                       *)
(***************************************************************************)
Adaptive == tt.options.ip_win32_type = IPW32_SET_ADAPTIVE

\* C30: after tun_standby_init, in adaptive mode the k-th call of
\* tun_standby runs the netsh address configuration exactly when k is
\* IPW32_SET_ADAPTIVE_TRY_NETSH, so at most once in a cycle, and returns
\* false exactly when k >= 2 * IPW32_SET_ADAPTIVE_TRY_NETSH; with every
\* other --ip-win32 method it returns true at every call and runs no
\* command.
C30_StandbyTriesNetshOnce ==
  fn.op = "tun_standby" =>
    /\ tt.standby_iter = fn.k
    /\ fn.ran <=> (Adaptive /\ fn.k = IPW32_SET_ADAPTIVE_TRY_NETSH)
    /\ fn.ran => fn.netsh.fetched
    /\ ~fn.ran => fn.netsh.cmds = <<>>
    /\ fn.runs <= 1
    /\ fn.runs = 1 <=> (Adaptive /\ fn.k >= IPW32_SET_ADAPTIVE_TRY_NETSH)
    /\ ~aborted =>
         (fn.ret <=> ~(Adaptive /\ fn.k >= 2 * IPW32_SET_ADAPTIVE_TRY_NETSH))
    /\ aborted => fn.ran

\* C30 witness: in adaptive mode the call that makes false the answer: it
\* is the 2 * IPW32_SET_ADAPTIVE_TRY_NETSH-th of the cycle and netsh has
\* been tried once.
C30_Witness ==
  /\ fn.op = "tun_standby" /\ Adaptive /\ ~aborted
  /\ fn.k = 2 * IPW32_SET_ADAPTIVE_TRY_NETSH
  /\ ~fn.ret /\ fn.runs = 1 /\ ~fn.ran

\* the call that tries netsh, on an adapter that lacks the address
C30_WitnessNetsh ==
  /\ fn.op = "tun_standby" /\ Adaptive /\ ~aborted
  /\ fn.k = IPW32_SET_ADAPTIVE_TRY_NETSH
  /\ fn.ran /\ fn.ret /\ fn.netsh.cmds # <<>>

====
